---- MODULE Spec2Model ----
(***************************************************************************)
(* A model of otter's layer build engine: the ignore-pattern matcher and   *)
(* the file merge (FileOperations), the hook executor (CommandExecutor)    *)
(* and the build command (runBuild).                                       *)
(*                                                                         *)
(* Strings are sequences of one-character strings, so that the prefix,     *)
(* suffix and split operations of the Go code are computed, not assumed.   *)
(***************************************************************************)
EXTENDS Integers, Sequences, FiniteSets, TLC

VARIABLES
    \* matchPattern applied to one pattern and one path
    mPattern, mPath, mDone, mResult,
    \* the hook executor: one call of ExecuteCommands[WithCleanup]
    xCommands, xOnError, xCall, xRan, xCleanupRan, xErr, xCleanupErr,
    \* CopyLayer of one layer into a target
    cProject, cLayer, cTarget, cPatterns, cState,
    \* a run of layers merged one after another into one target
    gLayers, gProject, gTarget, gIdx, gErr, gWrites,
    \* runBuild
    bConfig, bEnv, bPc, bApplicable, bIdx, bLog, bResult, bCount,
    \* substituteVariables applied to one text
    sText, sVariables, sEnv, sDone, sResult,
    \* FilterApplicableLayers applied to the layers of one configuration
    fConditions, fHost, fDone, fResult,
    \* a build from a configuration file: ParseOtterfile, the filter and the layer loop
    pLines, pHost, pPc, pParse, pApplicable, pIdx, pTouched, pResult,
    \* the acquisition of layer sources: the file system and the cache, the sources of the build, the layer of the loop, the position of the build, what each acquisition did, the answer of GetRepositoryCommit, the outcome
    aFs, aCache, aSources, aIdx, aPc, aLog, aCommit, aResult,
    \* the copy of one file: the pieces of its content, the template variables of the layer, the target, the outcome
    tPieces, tTemplateVars, tTarget, tResult,
    \* runs that share a cache: the source of each run and the name of its cache path, the cache, the position of each run, what its check saw, its outcome
    rSources, rNames, rCache, rPc, rSaw, rResult

mVars == <<mPattern, mPath, mDone, mResult>>
xVars == <<xCommands, xOnError, xCall, xRan, xCleanupRan, xErr, xCleanupErr>>
cVars == <<cProject, cLayer, cTarget, cPatterns, cState>>
gVars == <<gLayers, gProject, gTarget, gIdx, gErr, gWrites>>
bVars == <<bConfig, bEnv, bPc, bApplicable, bIdx, bLog, bResult, bCount>>
sVars == <<sText, sVariables, sEnv, sDone, sResult>>
fVars == <<fConditions, fHost, fDone, fResult>>
pVars == <<pLines, pHost, pPc, pParse, pApplicable, pIdx, pTouched, pResult>>
aVars == <<aFs, aCache, aSources, aIdx, aPc, aLog, aCommit, aResult>>
tVars == <<tPieces, tTemplateVars, tTarget, tResult>>
rVars == <<rSources, rNames, rCache, rPc, rSaw, rResult>>
vars == <<mVars, xVars, cVars, gVars, bVars, sVars, fVars, pVars, aVars, tVars, rVars>>

-----------------------------------------------------------------------------
(* Bounds *)

\* longest generated pattern or path, in characters
MaxStrLen == 3

\* longest command list handed to the hook executor
MaxCmds == 3

\* longest cleanup list handed to the hook executor
MaxCleanup == 2

\* most lines in an ignore file
MaxLines == 1

\* most layers merged into one target
MaxLayers == 2

\* most layers declared in the configuration of a build
MaxBuildLayers == 2

-----------------------------------------------------------------------------
(* Go's strings package, on sequences of characters *)

HasPrefix(s, prefix) ==
    Len(prefix) <= Len(s) /\ SubSeq(s, 1, Len(prefix)) = prefix

HasSuffix(s, suffix) ==
    Len(suffix) <= Len(s) /\ SubSeq(s, Len(s) - Len(suffix) + 1, Len(s)) = suffix

TrimSuffix(s, suffix) ==
    IF HasSuffix(s, suffix) THEN SubSeq(s, 1, Len(s) - Len(suffix)) ELSE s

TrimPrefix(s, prefix) ==
    IF HasPrefix(s, prefix) THEN SubSeq(s, Len(prefix) + 1, Len(s)) ELSE s

Contains(s, substr) ==
    \E i \in 0..(Len(s) - Len(substr)) : SubSeq(s, i + 1, i + Len(substr)) = substr

\* strings.Split(s, sep) for a one-character separator: the pieces between
\* the separators, empty pieces included.
RECURSIVE Split(_, _)
Split(s, sep) ==
    IF \A i \in 1..Len(s) : s[i] # sep
    THEN <<s>>
    ELSE LET k == CHOOSE i \in 1..Len(s) :
                      s[i] = sep /\ \A j \in 1..(i - 1) : s[j] # sep
         IN  <<SubSeq(s, 1, k - 1)>> \o Split(SubSeq(s, k + 1, Len(s)), sep)

\* strings.TrimSpace, with the blank as the only white space of the model
RECURSIVE TrimSpace(_)
TrimSpace(s) ==
    IF s # <<>> /\ s[1] = " " THEN TrimSpace(Tail(s))
    ELSE IF s # <<>> /\ s[Len(s)] = " " THEN TrimSpace(SubSeq(s, 1, Len(s) - 1))
    ELSE s

-----------------------------------------------------------------------------
(* Names used by the code, the tests and the documentation *)

S_git == <<".", "g", "i", "t">>
S_gitSlash == <<".", "g", "i", "t", "/">>
S_otter == <<".", "o", "t", "t", "e", "r">>
S_otterSlash == <<".", "o", "t", "t", "e", "r", "/">>
S_otterignore == <<".", "o", "t", "t", "e", "r", "i", "g", "n", "o", "r", "e">>
S_gitignore == <<".", "g", "i", "t", "i", "g", "n", "o", "r", "e">>
S_gitConfig == <<".", "g", "i", "t", "/", "c", "o", "n", "f", "i", "g">>
S_otterCache == <<".", "o", "t", "t", "e", "r", "/", "c", "a", "c", "h", "e", ".", "j", "s", "o", "n">>
S_README == <<"R", "E", "A", "D", "M", "E", ".", "m", "d">>
S_LICENSE == <<"L", "I", "C", "E", "N", "S", "E">>
S_FOO == <<"F", "O", "O", ".", "m", "d">>
S_debugLog == <<"d", "e", "b", "u", "g", ".", "l", "o", "g">>
S_tempFile == <<"t", "e", "m", "p", "/", "f", "i", "l", "e", ".", "t", "x", "t">>
S_logsError == <<"l", "o", "g", "s", "/", "e", "r", "r", "o", "r", ".", "t", "x", "t">>
S_starLog == <<"*", ".", "l", "o", "g">>
S_tempSlash == <<"t", "e", "m", "p", "/">>
S_temp == <<"t", "e", "m", "p">>
S_logs == <<"l", "o", "g", "s">>
S_pkg == <<"p", "k", "g">>
S_pkgGitignore == <<"p", "k", "g", "/", ".", "g", "i", "t", "i", "g", "n", "o", "r", "e">>
S_pkgOtter == <<"p", "k", "g", "/", ".", "o", "t", "t", "e", "r">>
S_pkgOtterState == <<"p", "k", "g", "/", ".", "o", "t", "t", "e", "r", "/", "s", "t", "a", "t", "e">>
S_pkgTemp == <<"p", "k", "g", "/", "t", "e", "m", "p">>
S_pkgTempX == <<"p", "k", "g", "/", "t", "e", "m", "p", "/", "x", ".", "t", "x", "t">>
S_logsDebug == <<"l", "o", "g", "s", "/", "d", "e", "b", "u", "g", ".", "l", "o", "g">>
S_comment == <<"#", " ", "L", "I", "C", "E", "N", "S", "E">>
S_paddedFOO == <<" ", "F", "O", "O", ".", "m", "d", " ">>

-----------------------------------------------------------------------------
(* The pattern matcher *)

\* matchWildcard: "*" matches everything, "*.ext" matches by suffix, any
\* other pattern with a star matches nothing.
matchWildcard(pattern, path) ==
    IF pattern = <<"*">> THEN TRUE
    ELSE IF HasPrefix(pattern, <<"*", ".">>)
         THEN LET extension == TrimPrefix(pattern, <<"*">>)
              IN  HasSuffix(path, extension)
         ELSE FALSE

\* The last statement of matchPattern, dropped: a pattern that is not the
\* final segment matches nothing.
matchPatternNoPrefix(pattern, path) ==
    IF pattern = path THEN TRUE
    ELSE IF HasSuffix(pattern, <<"/">>)
         THEN LET dirPattern == TrimSuffix(pattern, <<"/">>)
              IN  HasPrefix(path, dirPattern \o <<"/">>) \/ path = dirPattern
    ELSE IF Contains(pattern, <<"*">>) THEN matchWildcard(pattern, path)
    ELSE IF ~Contains(pattern, <<"/">>)
             /\ LET pathParts == Split(path, "/")
                IN  pattern = pathParts[Len(pathParts)]
         THEN TRUE
    ELSE FALSE

\* matchPattern: exact match, directory pattern, wildcard pattern, file
\* name in any directory, and the prefix match that ends the function.
matchPattern(pattern, path) ==
    IF pattern = path THEN TRUE
    ELSE IF HasSuffix(pattern, <<"/">>)
         THEN LET dirPattern == TrimSuffix(pattern, <<"/">>)
              IN  HasPrefix(path, dirPattern \o <<"/">>) \/ path = dirPattern
    ELSE IF Contains(pattern, <<"*">>) THEN matchWildcard(pattern, path)
    ELSE IF ~Contains(pattern, <<"/">>)
             /\ LET pathParts == Split(path, "/")
                    filename == pathParts[Len(pathParts)]
                IN  pattern = filename
         THEN TRUE
    ELSE HasPrefix(path, pattern)

\* isIgnoredWithPatterns consulting the first pattern of the list only.
isIgnoredFirstPatternOnly(relativePath, patterns) ==
    patterns # <<>> /\ matchPattern(patterns[1], relativePath)

\* isIgnoredWithPatterns: some pattern of the list matches the path.
isIgnoredWithPatterns(relativePath, patterns) ==
    \E i \in 1..Len(patterns) : matchPattern(patterns[i], relativePath)

-----------------------------------------------------------------------------
(* Inputs of the matcher *)

Alphabet == {"a", ".", "/", "*"}

\* every string over the alphabet of 1..MaxStrLen characters
GeneratedStrings == UNION {[1..n -> Alphabet] : n \in 1..MaxStrLen}

NamedPatterns ==
    {S_starLog, S_tempSlash, S_temp, S_logs, S_git, S_gitSlash, S_README}

NamedPaths ==
    {S_debugLog, S_tempFile, S_logsError, S_temp, S_logs, S_gitConfig, S_README}

\* A path relative to the layer root, as filepath.Rel gives it for an entry
\* below the root: segments separated by single slashes, none of them empty,
\* "." or "..".
IsRelPath(s) ==
    LET parts == Split(s, "/")
    IN  \A i \in 1..Len(parts) :
            parts[i] # <<>> /\ parts[i] # <<".">> /\ parts[i] # <<".", ".">>

MatchPatterns == GeneratedStrings \cup NamedPatterns
MatchPaths == {s \in GeneratedStrings : IsRelPath(s)} \cup NamedPaths

-----------------------------------------------------------------------------
(* The hook executor *)

\* The commands of the model: two whose exit status is fixed, one whose exit
\* status the environment decides, and the empty command.
HookCommands == {"true", "false", "cmd", ""}

\* The exit statuses the shell can give a command.
ExitCodes(command) ==
    IF command = "true" THEN {0}
    ELSE IF command = "false" THEN {1}
    ELSE {0, 1}

\* The exit statuses of one execution of a list.
Outcomes(commands) ==
    {e \in [1..Len(commands) -> {0, 1}] :
        \A i \in 1..Len(commands) : e[i] \in ExitCodes(commands[i])}

\* A nil error, and the error ExecuteCommands wraps around a failed command.
NoError == [failed |-> FALSE, context |-> "", command |-> ""]
CommandError(context, command) ==
    [failed |-> TRUE, context |-> context, command |-> command]

\* ExecuteCommand: the empty command is an error and is not handed to the
\* shell; any other command succeeds exactly when it exits with status 0.
ExecuteCommand(command, exit) ==
    IF command = "" THEN FALSE ELSE exit = 0

\* The loop of ExecuteCommands from command i on: ran is the list of the
\* commands attempted so far, each with its success.
RECURSIVE ExecuteFrom(_, _, _, _, _)
ExecuteFrom(commands, context, exits, i, ran) ==
    IF i > Len(commands) THEN [ran |-> ran, err |-> NoError]
    ELSE LET ok == ExecuteCommand(commands[i], exits[i])
             now == Append(ran, [cmd |-> commands[i], ok |-> ok])
         IN  IF ~ok
             THEN [ran |-> now, err |-> CommandError(context, commands[i])]
             ELSE ExecuteFrom(commands, context, exits, i + 1, now)

\* The loop without its return: a failed command is remembered and the
\* commands after it are still executed.
ExecuteCommandsNoStop(commands, context, exits) ==
    LET ran == [i \in 1..Len(commands) |->
                   [cmd |-> commands[i],
                    ok |-> ExecuteCommand(commands[i], exits[i])]]
        bad == {i \in 1..Len(commands) : ~ran[i].ok}
    IN  [ran |-> ran,
         err |-> IF bad = {} THEN NoError
                 ELSE CommandError(context,
                          commands[CHOOSE i \in bad : \A j \in bad : i <= j])]

\* ExecuteCommands: nothing for the empty list, else the commands in order
\* up to the first that fails.
ExecuteCommands(commands, context, exits) ==
    IF Len(commands) = 0 THEN [ran |-> <<>>, err |-> NoError]
    ELSE ExecuteFrom(commands, context, exits, 1, <<>>)

\* The cleanup variant returning the cleanup's error when the cleanup fails.
ExecuteCommandsWithCleanupMasking(commands, context, onError, exits, cleanupExits) ==
    LET primary == ExecuteCommands(commands, context, exits)
    IN  IF primary.err.failed /\ Len(onError) > 0
        THEN LET cleanup == ExecuteCommands(onError, "cleanup", cleanupExits)
             IN  [ran |-> primary.ran,
                  err |-> IF cleanup.err.failed THEN cleanup.err ELSE primary.err,
                  cleanupRan |-> cleanup.ran, cleanupErr |-> cleanup.err]
        ELSE [ran |-> primary.ran, err |-> primary.err,
              cleanupRan |-> <<>>, cleanupErr |-> NoError]

\* The cleanup variant whose cleanup goes on after a cleanup command fails.
ExecuteCommandsWithCleanupAll(commands, context, onError, exits, cleanupExits) ==
    LET primary == ExecuteCommands(commands, context, exits)
    IN  IF primary.err.failed /\ Len(onError) > 0
        THEN LET cleanup == ExecuteCommandsNoStop(onError, "cleanup", cleanupExits)
             IN  [ran |-> primary.ran, err |-> primary.err,
                  cleanupRan |-> cleanup.ran, cleanupErr |-> cleanup.err]
        ELSE [ran |-> primary.ran, err |-> primary.err,
              cleanupRan |-> <<>>, cleanupErr |-> NoError]

\* ExecuteCommandsWithCleanup: the primary list, then the cleanup list when
\* the primary list failed and the cleanup list is not empty; the cleanup's
\* error is printed and the primary error is returned.
ExecuteCommandsWithCleanup(commands, context, onError, exits, cleanupExits) ==
    LET primary == ExecuteCommands(commands, context, exits)
    IN  IF primary.err.failed /\ Len(onError) > 0
        THEN LET cleanup == ExecuteCommands(onError, "cleanup", cleanupExits)
             IN  [ran |-> primary.ran, err |-> primary.err,
                  cleanupRan |-> cleanup.ran, cleanupErr |-> cleanup.err]
        ELSE [ran |-> primary.ran, err |-> primary.err,
              cleanupRan |-> <<>>, cleanupErr |-> NoError]

\* the command lists of at most n commands
CommandLists(n) == UNION {[1..k -> HookCommands] : k \in 0..n}

-----------------------------------------------------------------------------
(* The file merge *)

\* The loop shared by LoadIgnorePatterns and loadLayerIgnorePatterns: every
\* line is trimmed, and empty lines and comments are skipped.
RECURSIVE ReadPatterns(_)
ReadPatterns(lines) ==
    IF lines = <<>> THEN <<>>
    ELSE LET line == TrimSpace(Head(lines))
         IN  IF line = <<>> \/ HasPrefix(line, <<"#">>)
             THEN ReadPatterns(Tail(lines))
             ELSE <<line>> \o ReadPatterns(Tail(lines))

\* LoadIgnorePatterns: the patterns of the project's .otterignore; the list
\* of the FileOperations value is left as it is when the file does not exist.
LoadIgnorePatterns(IgnorePatterns, ignoreFile) ==
    IF ~ignoreFile.exists THEN IgnorePatterns ELSE ReadPatterns(ignoreFile.lines)

\* loadLayerIgnorePatterns: the patterns of the layer's own .otterignore,
\* none when the layer has no such file.
loadLayerIgnorePatterns(layer) ==
    IF ~layer.ignoreFile.exists THEN <<>> ELSE ReadPatterns(layer.ignoreFile.lines)

\* The patterns CopyLayer appends to every combined list.
criticalIgnorePatterns ==
    <<S_git, S_gitSlash, S_otter, S_otterSlash, S_otterignore, S_gitignore>>

\* The entries of a layer in the order filepath.Walk visits them: every
\* directory before its content, the names of one directory in byte order.
LayerEntries(layer) ==
    layer.before
      \o (IF layer.ignoreFile.exists
          THEN <<[path |-> S_otterignore, dir |-> FALSE, ro |-> FALSE]>> ELSE <<>>)
      \o layer.after

\* The target tree: a set of entries, at most one for a path.  An entry
\* with ro is a file whose mode does not let the process write it.
Exists(target, path) == \E t \in target : t.path = path
IsDir(target, path) == \E t \in target : t.path = path /\ t.dir
IsFile(target, path) == \E t \in target : t.path = path /\ ~t.dir
IsReadOnly(target, path) == \E t \in target : t.path = path /\ ~t.dir /\ t.ro

\* The directories above a relative path, the target directory excluded.
Ancestors(path) ==
    {SubSeq(path, 1, i - 1) : i \in {j \in 1..Len(path) : path[j] = "/"}}

\* os.MkdirAll below the target: fails when the path or a directory above it
\* exists as a file, and otherwise creates the directories that are missing.
MkdirAll(target, path) ==
    LET dirs == Ancestors(path) \cup {path}
    IN  IF \E d \in dirs : IsFile(target, d)
        THEN [target |-> target, failed |-> TRUE]
        ELSE [target |-> target \cup
                  {[path |-> d, dir |-> TRUE, content |-> 0, ro |-> FALSE] :
                      d \in {x \in dirs : ~Exists(target, x)}},
              failed |-> FALSE]

\* copyFile: the directory of the destination is created, the source is read
\* and written to the destination, whether or not the destination exists.
\* os.WriteFile opens the destination for writing: this fails when the
\* destination is a directory or a file the process may not write; a file
\* that exists keeps its mode, a new one gets the mode of the source.
copyFile(target, path, content, ro) ==
    LET made == IF Ancestors(path) = {} THEN [target |-> target, failed |-> FALSE]
                ELSE MkdirAll(target,
                         CHOOSE d \in Ancestors(path) :
                             \A x \in Ancestors(path) : Len(x) <= Len(d))
    IN  IF made.failed THEN made
        ELSE IF IsDir(made.target, path) THEN [target |-> made.target, failed |-> TRUE]
        ELSE IF IsReadOnly(made.target, path)
        THEN [target |-> made.target, failed |-> TRUE]
        ELSE [target |-> {t \in made.target : t.path # path}
                           \cup {[path |-> path, dir |-> FALSE, content |-> content,
                                   ro |-> IF IsFile(made.target, path) THEN FALSE ELSE ro]},
              failed |-> FALSE]

\* The walk function of CopyLayer on one entry.  acc holds the target, the
\* directories for which the function returned SkipDir, the paths written
\* and whether the walk has failed.
WalkFn(entry, patterns, content, acc) ==
    IF isIgnoredWithPatterns(entry.path, patterns)
    THEN IF entry.dir
         THEN [acc EXCEPT !.skipped = @ \cup {entry.path}]
         ELSE acc
    ELSE IF entry.dir
    THEN LET made == MkdirAll(acc.target, entry.path)
         IN  [acc EXCEPT !.target = made.target,
                         !.failed = made.failed,
                         !.written = IF made.failed THEN @ ELSE Append(@, entry.path)]
    ELSE LET copied == copyFile(acc.target, entry.path, content, entry.ro)
         IN  [acc EXCEPT !.target = copied.target,
                         !.failed = copied.failed,
                         !.written = IF copied.failed THEN @ ELSE Append(@, entry.path)]

\* filepath.Walk that visits the entries below a skipped directory too.
RECURSIVE WalkNoSkip(_, _, _, _, _)
WalkNoSkip(entries, patterns, content, i, acc) ==
    IF i > Len(entries) \/ acc.failed THEN acc
    ELSE WalkNoSkip(entries, patterns, content, i + 1,
                    WalkFn(entries[i], patterns, content, acc))

\* filepath.Walk over the entries from entry i on: an entry below a skipped
\* directory is not visited, and the first error ends the walk.
RECURSIVE Walk(_, _, _, _, _)
Walk(entries, patterns, content, i, acc) ==
    IF i > Len(entries) \/ acc.failed THEN acc
    ELSE IF \E d \in acc.skipped : HasPrefix(entries[i].path, d \o <<"/">>)
    THEN Walk(entries, patterns, content, i + 1, acc)
    ELSE Walk(entries, patterns, content, i + 1,
              WalkFn(entries[i], patterns, content, acc))

\* CopyLayer with the critical patterns left out of the combined list.
CopyLayerNoCritical(IgnorePatterns, layer, target) ==
    LET layerIgnorePatterns == loadLayerIgnorePatterns(layer)
        combinedPatterns == IgnorePatterns \o layerIgnorePatterns
        walked == Walk(LayerEntries(layer), combinedPatterns, layer.id, 1,
                       [target |-> target, skipped |-> {}, written |-> <<>>,
                        failed |-> FALSE])
    IN  [target |-> walked.target, written |-> walked.written,
         failed |-> walked.failed, IgnorePatterns |-> IgnorePatterns]

\* CopyLayer that keeps the patterns of the layer in the list of the
\* FileOperations value.
CopyLayerKeepsPatterns(IgnorePatterns, layer, target) ==
    LET layerIgnorePatterns == loadLayerIgnorePatterns(layer)
        combinedPatterns ==
            (IgnorePatterns \o layerIgnorePatterns) \o criticalIgnorePatterns
        walked == Walk(LayerEntries(layer), combinedPatterns, layer.id, 1,
                       [target |-> target, skipped |-> {}, written |-> <<>>,
                        failed |-> FALSE])
    IN  [target |-> walked.target, written |-> walked.written,
         failed |-> walked.failed,
         IgnorePatterns |-> IgnorePatterns \o layerIgnorePatterns]

\* CopyLayer: the project patterns, then the layer's own patterns, then the
\* critical patterns, and the walk over the layer with the combined list.
\* The combined list is a local slice: append does not change the length
\* of the list of the FileOperations value, which is given back as
\* IgnorePatterns.
CopyLayer(IgnorePatterns, layer, target) ==
    LET layerIgnorePatterns == loadLayerIgnorePatterns(layer)
        combinedPatterns ==
            (IgnorePatterns \o layerIgnorePatterns) \o criticalIgnorePatterns
        walked == Walk(LayerEntries(layer), combinedPatterns, layer.id, 1,
                       [target |-> target, skipped |-> {}, written |-> <<>>,
                        failed |-> FALSE])
    IN  [target |-> walked.target, written |-> walked.written,
         failed |-> walked.failed, IgnorePatterns |-> IgnorePatterns]

-----------------------------------------------------------------------------
(* Inputs of the file merge *)

File(path) == [path |-> path, dir |-> FALSE, ro |-> FALSE]
Dir(path) == [path |-> path, dir |-> TRUE, ro |-> FALSE]
\* a file whose mode has no write permission for the process that builds
ReadOnly(path) == [path |-> path, dir |-> FALSE, ro |-> TRUE]

\* The layer of TestCriticalFileProtection and TestLayerSpecificIgnorePatterns:
\* a repository with tool state and three documents.
TreeRepository ==
    [before |-> <<Dir(S_git), File(S_gitConfig), File(S_gitignore),
                  Dir(S_otter), File(S_otterCache)>>,
     after |-> <<File(S_FOO), File(S_LICENSE), File(S_README)>>]

\* A layer with nested directories, one of them holding tool state.
TreeNested ==
    [before |-> <<>>,
     after |-> <<File(S_README), File(S_debugLog),
                 Dir(S_logs), File(S_logsDebug), File(S_logsError),
                 Dir(S_pkg), File(S_pkgGitignore), Dir(S_pkgOtter),
                 File(S_pkgOtterState), Dir(S_pkgTemp), File(S_pkgTempX),
                 Dir(S_temp), File(S_tempFile)>>]

S_gitattributes == <<".", "g", "i", "t", "a", "t", "t", "r", "i", "b", "u",
      "t", "e", "s">>
S_github == <<".", "g", "i", "t", "h", "u", "b">>
S_githubWorkflows == <<".", "g", "i", "t", "h", "u", "b", "/", "w", "o",
      "r", "k", "f", "l", "o", "w", "s">>
S_githubCi == <<".", "g", "i", "t", "h", "u", "b", "/", "w", "o", "r", "k",
      "f", "l", "o", "w", "s", "/", "c", "i", ".", "y", "m", "l">>
S_otterrc == <<".", "o", "t", "t", "e", "r", "r", "c">>

\* A layer whose entries have names that begin like those of the tool
\* state without being them.
TreeDotfiles ==
    [before |-> <<File(S_gitattributes), Dir(S_github), Dir(S_githubWorkflows),
                  File(S_githubCi)>>,
     after |-> <<File(S_otterrc), File(S_README)>>]

TreeCatalogue == {TreeRepository, TreeNested, TreeDotfiles}

\* The lines an ignore file is made of.
IgnoreLines ==
    {S_README, S_LICENSE, S_starLog, S_tempSlash, S_temp, S_comment, S_paddedFOO}

\* An ignore file: absent, or a list of at most MaxLines lines.
IgnoreFiles ==
    {[exists |-> FALSE, lines |-> <<>>]}
      \cup {[exists |-> TRUE, lines |-> l] :
               l \in UNION {[1..n -> IgnoreLines] : n \in 0..MaxLines}}

Layers(id) ==
    {[id |-> id, before |-> tree.before, after |-> tree.after, ignoreFile |-> f] :
        tree \in TreeCatalogue, f \in IgnoreFiles}

\* A layer whose temp is a file, where TreeNested has a directory.
TreeFlat ==
    [before |-> <<>>,
     after |-> <<File(S_FOO), File(S_README), File(S_temp)>>]

\* A layer whose README.md is read-only.
TreeLocked ==
    [before |-> <<>>,
     after |-> <<File(S_FOO), ReadOnly(S_README)>>]

\* The layers of a run that merges several layers into one target: each of
\* the trees, without an ignore file or with one that lists LICENSE.
RunLayers(id) ==
    {[id |-> id, before |-> tree.before, after |-> tree.after, ignoreFile |-> f] :
        tree \in {TreeRepository, TreeNested, TreeFlat, TreeLocked},
        f \in {[exists |-> FALSE, lines |-> <<>>],
               [exists |-> TRUE, lines |-> <<S_LICENSE>>]}}

\* the runs of 1..MaxLayers layers, the layer at place i carrying the id i
LayerRuns ==
    UNION {{run \in [1..n -> UNION {RunLayers(i) : i \in 1..MaxLayers}] :
               \A i \in 1..n : run[i].id = i} : n \in 1..MaxLayers}

NoLayer == [id |-> 0, before |-> <<>>, after |-> <<>>,
            ignoreFile |-> [exists |-> FALSE, lines |-> <<>>]]

-----------------------------------------------------------------------------
(* The build command *)

\* Layer.ShouldApplyLayer: a layer without condition applies; a condition
\* without "=" is an error; any other condition is evaluated against the
\* environment.  The condition of the model is its own verdict.
ShouldApplyLayer(layer) ==
    IF layer.cond = "" THEN [apply |-> TRUE, failed |-> FALSE]
    ELSE IF layer.cond = "malformed" THEN [apply |-> FALSE, failed |-> TRUE]
    ELSE [apply |-> layer.cond = "holds", failed |-> FALSE]

\* FilterApplicableLayers: the places, in declaration order, of the layers
\* that apply, or an error at the first condition that cannot be parsed.
RECURSIVE FilterFrom(_, _, _)
FilterFrom(layers, i, kept) ==
    IF i > Len(layers) THEN [layers |-> kept, failed |-> FALSE]
    ELSE LET r == ShouldApplyLayer(layers[i])
         IN  IF r.failed THEN [layers |-> <<>>, failed |-> TRUE]
             ELSE FilterFrom(layers, i + 1, IF r.apply THEN Append(kept, i) ELSE kept)

\* FilterApplicableLayers that returns the layers kept in reverse order.
FilterApplicableLayersReversed(config) ==
    LET r == FilterFrom(config.layers, 1, <<>>)
    IN  [layers |-> [k \in 1..Len(r.layers) |-> r.layers[Len(r.layers) + 1 - k]],
         failed |-> r.failed]

FilterApplicableLayers(config) == FilterFrom(config.layers, 1, <<>>)

\* The steps of runBuild before its layer loop: the .otter directory, the
\* configuration file, its parse, the filter and the project's ignore
\* patterns.  The outcome is "loop" when the loop is entered and the result
\* of the build when it is not.
runBuildStart(env, config) ==
    IF ~env.otterDir THEN "error"
    ELSE IF ~env.found THEN "error"
    ELSE IF ~env.parses THEN "error"
    ELSE IF Len(config.layers) = 0 THEN "ok"
    ELSE LET applicableLayers == FilterApplicableLayers(config)
         IN  IF applicableLayers.failed THEN "error"
             ELSE IF Len(applicableLayers.layers) = 0 THEN "ok"
             ELSE IF ~env.ignoreLoads THEN "error"
             ELSE "loop"

\* The number of layers the last line of runBuild prints as applied.
AppliedCount(config, applicableLayers) == Len(config.layers)

\* The command lists of the configurations of the model.
FailingHook == <<"true", "false", "cmd">>
LayerSpecs ==
    [cond : {"", "holds", "fails", "malformed"},
     before : {<<>>, FailingHook},
     after : {<<>>, <<"true">>}]

BuildConfigs ==
    [layers : UNION {[1..n -> LayerSpecs] : n \in 0..MaxBuildLayers},
     onBeforeBuild : {<<>>, <<"true">>},
     onAfterBuild : {<<>>, <<"true">>},
     onError : {<<>>, <<"true">>, <<"false">>}]

\* What runBuild finds on disk: everything in place, or one thing missing.
EnvReady == [otterDir |-> TRUE, found |-> TRUE, parses |-> TRUE, ignoreLoads |-> TRUE]
BuildEnvs ==
    {EnvReady,
     [EnvReady EXCEPT !.otterDir = FALSE],
     [EnvReady EXCEPT !.found = FALSE],
     [EnvReady EXCEPT !.parses = FALSE],
     [EnvReady EXCEPT !.ignoreLoads = FALSE]}

NoConfig == [layers |-> <<>>, onBeforeBuild |-> <<>>, onAfterBuild |-> <<>>,
             onError |-> <<>>]

-----------------------------------------------------------------------------
(* Variable substitution *)

\* longest generated text handed to substituteVariables, in characters
MaxTextLen == 4

S_OTTER_ == <<"O", "T", "T", "E", "R", "_">>
S_A == <<"A">>
S_a == <<"a">>
S_OTTER_A == <<"O", "T", "T", "E", "R", "_", "A">>
S_phA == <<"$", "{", "A", "}">>
S_pha == <<"$", "{", "a", "}">>
S_phAa == <<"$", "{", "A", "}", "$", "{", "a", "}">>
S_phOpen == <<"$", "{", "A", "$", "{", "a", "}">>
S_v == <<"v">>
S_o == <<"o">>
S_p == <<"p">>
S_q == <<"q">>

\* strings.ToUpper on the letters a to z
ToUpperChar(c) ==
    LET lower == <<"a", "b", "c", "d", "e", "f", "g", "h", "i", "j", "k", "l", "m",
                   "n", "o", "p", "q", "r", "s", "t", "u", "v", "w", "x", "y", "z">>
        upper == <<"A", "B", "C", "D", "E", "F", "G", "H", "I", "J", "K", "L", "M",
                   "N", "O", "P", "Q", "R", "S", "T", "U", "V", "W", "X", "Y", "Z">>
    IN  IF \E i \in 1..26 : lower[i] = c
        THEN upper[CHOOSE i \in 1..26 : lower[i] = c]
        ELSE c

ToUpper(s) == [i \in 1..Len(s) |-> ToUpperChar(s[i])]

\* os.Getenv: the value of a variable of the environment, empty when unset.
Getenv(env, name) == IF name \in DOMAIN env THEN env[name] ELSE <<>>

\* The place where the match of \$\{([^}]+)\} that begins at place i ends,
\* or 0 when no match begins there: "${", at least one character that is
\* not "}", then the first "}".
MatchEnd(text, i) ==
    IF /\ i + 3 <= Len(text)
       /\ text[i] = "$" /\ text[i + 1] = "{" /\ text[i + 2] # "}"
       /\ \E j \in (i + 3)..Len(text) : text[j] = "}"
    THEN CHOOSE j \in (i + 3)..Len(text) :
             text[j] = "}" /\ \A k \in (i + 3)..(j - 1) : text[k] # "}"
    ELSE 0

\* The replacement function with the environment consulted before the
\* variables of the configuration.
ReplacementEnvFirst(match, variables, env) ==
    LET varName == SubSeq(match, 3, Len(match) - 1)
        envVarName == S_OTTER_ \o ToUpper(varName)
    IN  IF Getenv(env, envVarName) # <<>> THEN Getenv(env, envVarName)
        ELSE IF Getenv(env, varName) # <<>> THEN Getenv(env, varName)
        ELSE IF varName \in DOMAIN variables THEN variables[varName]
        ELSE match

\* The function substituteVariables applies to every match.
Replacement(match, variables, env) ==
    LET varName == SubSeq(match, 3, Len(match) - 1)
        envVarName == S_OTTER_ \o ToUpper(varName)
    IN  IF varName \in DOMAIN variables THEN variables[varName]
        ELSE IF Getenv(env, envVarName) # <<>> THEN Getenv(env, envVarName)
        ELSE IF Getenv(env, varName) # <<>> THEN Getenv(env, varName)
        ELSE match

\* ReplaceAllStringFunc: the matches are taken from left to right, none
\* overlaps another, and a replacement is not scanned again.
RECURSIVE ReplaceFrom(_, _, _, _)
ReplaceFrom(text, i, variables, env) ==
    IF i > Len(text) THEN <<>>
    ELSE LET j == MatchEnd(text, i)
         IN  IF j = 0
             THEN <<text[i]>> \o ReplaceFrom(text, i + 1, variables, env)
             ELSE Replacement(SubSeq(text, i, j), variables, env)
                      \o ReplaceFrom(text, j + 1, variables, env)

\* substituteVariables that passes over its own output once more.
substituteVariablesRepeated(text, variables, env) ==
    ReplaceFrom(ReplaceFrom(text, 1, variables, env), 1, variables, env)

\* substituteVariables: one pass of ReplaceAllStringFunc over the text.
substituteVariables(text, variables, env) == ReplaceFrom(text, 1, variables, env)

\* The texts of the model: every string over the characters of a
\* placeholder and two names, and texts with two placeholders.
SubstAlphabet == {"$", "{", "}", "A", "a"}
SubstTexts ==
    UNION {[1..n -> SubstAlphabet] : n \in 0..MaxTextLen}
        \cup {S_phAa, S_phOpen}

\* The variables of the configuration: A undefined, empty or "v"; a
\* undefined or a text that holds a placeholder itself.
SubstVariables ==
    {[n \in d |-> IF n = S_A THEN va ELSE S_phA] :
        d \in SUBSET {S_A, S_a}, va \in {<<>>, S_v}}

\* The environment: each of OTTER_A, A and a unset, empty or set.
SubstEnvs ==
    {[n \in d |-> IF n = S_OTTER_A THEN vo ELSE IF n = S_A THEN S_p ELSE S_q] :
        d \in SUBSET {S_OTTER_A, S_A, S_a}, vo \in {<<>>, S_o}}

-----------------------------------------------------------------------------
(* Layer conditions *)

\* most layers in a configuration handed to FilterApplicableLayers
MaxFilterLayers == 2

S_env == <<"e", "n", "v">>
S_environment == <<"e", "n", "v", "i", "r", "o", "n", "m", "e", "n", "t">>
S_os == <<"o", "s">>
S_arch == <<"a", "r", "c", "h">>
S_editor == <<"e", "d", "i", "t", "o", "r">>
S_development == <<"d", "e", "v", "e", "l", "o", "p", "m", "e", "n", "t">>
S_production == <<"p", "r", "o", "d", "u", "c", "t", "i", "o", "n">>
S_staging == <<"s", "t", "a", "g", "i", "n", "g">>
S_test == <<"t", "e", "s", "t">>
S_linux == <<"l", "i", "n", "u", "x">>
S_amd64 == <<"a", "m", "d", "6", "4">>
S_vscode == <<"v", "s", "c", "o", "d", "e">>
S_cursor == <<"c", "u", "r", "s", "o", "r">>
S_OTTER_ENV == <<"O", "T", "T", "E", "R", "_", "E", "N", "V">>
S_ENV == <<"E", "N", "V">>
S_NODE_ENV == <<"N", "O", "D", "E", "_", "E", "N", "V">>
S_OTTER_EDITOR == <<"O", "T", "T", "E", "R", "_", "E", "D", "I", "T", "O",
      "R">>
S_EDITOR == <<"E", "D", "I", "T", "O", "R">>
S_condDevelopment == <<"e", "n", "v", "=", "d", "e", "v", "e", "l", "o",
      "p", "m", "e", "n", "t">>
S_condProduction == <<"e", "n", "v", "=", "p", "r", "o", "d", "u", "c", "t",
      "i", "o", "n">>
S_condStaging == <<"e", "n", "v", "i", "r", "o", "n", "m", "e", "n", "t",
      "=", "s", "t", "a", "g", "i", "n", "g">>
S_condTest == <<"e", "n", "v", "=", "t", "e", "s", "t">>
S_condNoEquals == <<"e", "n", "v">>
S_condUpperKey == <<"E", "N", "V", "=", "p", "r", "o", "d", "u", "c", "t",
      "i", "o", "n">>
S_condOs == <<"o", "s", "=", "l", "i", "n", "u", "x">>
S_condEditor == <<"e", "d", "i", "t", "o", "r", "=", "v", "s", "c", "o",
      "d", "e">>

\* the place of the first "=" of a string, or 0
IndexOfEquals(s) ==
    IF \E i \in 1..Len(s) : s[i] = "="
    THEN CHOOSE i \in 1..Len(s) : s[i] = "=" /\ \A j \in 1..(i - 1) : s[j] # "="
    ELSE 0

\* strings.SplitN(s, "=", 2)
SplitN2(s) ==
    LET i == IndexOfEquals(s)
    IN  IF i = 0 THEN <<s>>
        ELSE <<SubSeq(s, 1, i - 1), SubSeq(s, i + 1, Len(s))>>

\* parseCondition: an empty condition and one without "=" are errors; key
\* and value are trimmed.
parseCondition(conditionStr) ==
    IF conditionStr = <<>> THEN [failed |-> TRUE, key |-> <<>>, value |-> <<>>]
    ELSE LET parts == SplitN2(conditionStr)
         IN  IF Len(parts) # 2 THEN [failed |-> TRUE, key |-> <<>>, value |-> <<>>]
             ELSE [failed |-> FALSE,
                   key |-> TrimSpace(parts[1]),
                   value |-> TrimSpace(parts[2])]

\* The first non-empty of the values of a list of environment variables, or
\* the empty string.
FirstNonEmpty(env, names) ==
    IF \E i \in 1..Len(names) : Getenv(env, names[i]) # <<>>
    THEN Getenv(env, names[CHOOSE i \in 1..Len(names) :
                        /\ Getenv(env, names[i]) # <<>>
                        /\ \A j \in 1..(i - 1) : Getenv(env, names[j]) = <<>>])
    ELSE <<>>

\* evaluateCondition with ENV consulted before OTTER_ENV.
evaluateConditionEnvFirst(condition, host) ==
    IF condition.key \in {S_env, S_environment}
    THEN LET envValue == FirstNonEmpty(host.env, <<S_ENV, S_OTTER_ENV, S_NODE_ENV>>)
         IN  condition.value = (IF envValue = <<>> THEN S_development ELSE envValue)
    ELSE condition.value = Getenv(host.env, S_OTTER_ \o ToUpper(condition.key))

\* evaluateCondition: the keys os and arch compare with the platform, env
\* and environment with OTTER_ENV, ENV, NODE_ENV or "development", editor
\* with OTTER_EDITOR, EDITOR or the editor directory found, and any other
\* key with the environment variable OTTER_ + uppercase(key).
evaluateCondition(condition, host) ==
    IF condition.key = S_os THEN condition.value = host.goos
    ELSE IF condition.key = S_arch THEN condition.value = host.goarch
    ELSE IF condition.key \in {S_env, S_environment}
    THEN LET envValue == FirstNonEmpty(host.env, <<S_OTTER_ENV, S_ENV, S_NODE_ENV>>)
         IN  condition.value = (IF envValue = <<>> THEN S_development ELSE envValue)
    ELSE IF condition.key = S_editor
    THEN LET editorValue == FirstNonEmpty(host.env, <<S_OTTER_EDITOR, S_EDITOR>>)
         IN  condition.value =
                 (IF editorValue # <<>> THEN editorValue
                  ELSE IF host.vscode THEN S_vscode
                  ELSE IF host.cursor THEN S_cursor
                  ELSE <<>>)
    ELSE condition.value = Getenv(host.env, S_OTTER_ \o ToUpper(condition.key))

\* What ShouldApplyLayer makes of the condition text of a layer on a host:
\* "" without condition, "malformed" when parseCondition fails, and else
\* "holds" or "fails" as evaluateCondition decides.
ConditionVerdict(conditionStr, host) ==
    IF conditionStr = <<>> THEN ""
    ELSE LET condition == parseCondition(conditionStr)
         IN  IF condition.failed THEN "malformed"
             ELSE IF evaluateCondition(condition, host) THEN "holds"
             ELSE "fails"

\* The conditions of the layers of the model.
Conditions ==
    {<<>>, S_condDevelopment, S_condProduction, S_condStaging, S_condTest,
     S_condNoEquals, S_condUpperKey, S_condOs, S_condEditor}

\* The declared layers: the layer at place i is named by i.
ConditionedLayers ==
    UNION {[1..n -> Conditions] : n \in 0..MaxFilterLayers}

\* The hosts: a Linux machine with or without .vscode; OTTER_ENV unset,
\* empty or set, ENV and NODE_ENV unset or set, all to different values.
Hosts ==
    {[goos |-> S_linux, goarch |-> S_amd64, vscode |-> vs, cursor |-> FALSE,
      env |-> [n \in d |-> IF n = S_OTTER_ENV THEN vo
                           ELSE IF n = S_ENV THEN ve ELSE S_test]] :
        d \in SUBSET {S_OTTER_ENV, S_ENV, S_NODE_ENV},
        vo \in {<<>>, S_development, S_production},
        ve \in {S_production, S_staging}, vs \in BOOLEAN}

NoHost ==
    [goos |-> <<>>, goarch |-> <<>>, vscode |-> FALSE, cursor |-> FALSE,
     env |-> <<>>]

\* The configuration FilterApplicableLayers sees for declared conditions.
ConditionedConfig(conditions, host) ==
    [layers |-> [i \in 1..Len(conditions) |->
                    [cond |-> ConditionVerdict(conditions[i], host),
                     before |-> <<>>, after |-> <<>>]],
     onBeforeBuild |-> <<>>, onAfterBuild |-> <<>>, onError |-> <<>>]

-----------------------------------------------------------------------------
(* The configuration parser *)

\* most physical lines in a configuration file
MaxFileLines == 3

S_VAR == <<"V", "A", "R">>
S_LAYER == <<"L", "A", "Y", "E", "R">>
S_ON_BEFORE_BUILD == <<"O", "N", "_", "B", "E", "F", "O", "R", "E", "_",
      "B", "U", "I", "L", "D", ":">>
S_ON_AFTER_BUILD == <<"O", "N", "_", "A", "F", "T", "E", "R", "_", "B", "U",
      "I", "L", "D", ":">>
S_ON_ERROR == <<"O", "N", "_", "E", "R", "R", "O", "R", ":">>
S_TARGET == <<"T", "A", "R", "G", "E", "T">>
S_IF == <<"I", "F">>
S_TEMPLATE == <<"T", "E", "M", "P", "L", "A", "T", "E">>
S_BEFORE == <<"B", "E", "F", "O", "R", "E">>
S_AFTER == <<"A", "F", "T", "E", "R">>
S_dot == <<".">>
S_PROJECT == <<"P", "R", "O", "J", "E", "C", "T">>
S_OTTER_PROJECT == <<"O", "T", "T", "E", "R", "_", "P", "R", "O", "J", "E",
      "C", "T">>
S_DIR == <<"D", "I", "R">>
S_name == <<"n", "a", "m", "e">>
S_demo == <<"d", "e", "m", "o">>
S_other == <<"o", "t", "h", "e", "r">>
S_fromEnv == <<"f", "r", "o", "m", "e", "n", "v">>
S_src == <<".", "/", "s", "r", "c">>
S_lib == <<".", "/", "l", "i", "b">>
S_outPlaceholder == <<"o", "u", "t", "/", "$", "{", "P", "R", "O", "J", "E",
      "C", "T", "}">>
S_dirValue == <<"$", "{", "P", "R", "O", "J", "E", "C", "T", "}", "/", "d">>
S_phProject == <<"$", "{", "P", "R", "O", "J", "E", "C", "T", "}">>
S_phDir == <<"$", "{", "D", "I", "R", "}">>
S_lineVarDemo == <<"V", "A", "R", " ", "P", "R", "O", "J", "E", "C", "T",
      "=", "d", "e", "m", "o">>
S_lineVarOther == <<"V", "A", "R", " ", "P", "R", "O", "J", "E", "C", "T",
      " ", "=", " ", "o", "t", "h", "e", "r">>
S_lineVarDir == <<"V", "A", "R", " ", "D", "I", "R", "=", "$", "{", "P",
      "R", "O", "J", "E", "C", "T", "}", "/", "d">>
S_lineLayer == <<"L", "A", "Y", "E", "R", " ", ".", "/", "s", "r", "c", " ",
      "T", "A", "R", "G", "E", "T", " ", "o", "u", "t", "/", "$", "{", "P",
      "R", "O", "J", "E", "C", "T", "}">>
S_lineLayerTemplate == <<"l", "a", "y", "e", "r", " ", ".", "/", "l", "i",
      "b", " ", "T", "E", "M", "P", "L", "A", "T", "E", " ", "n", "a", "m",
      "e", "=", "$", "{", "P", "R", "O", "J", "E", "C", "T", "}", " ", "I",
      "F", " ", "e", "n", "v", "=", "p", "r", "o", "d", "u", "c", "t", "i",
      "o", "n">>
S_lineLayerDir == <<"L", "A", "Y", "E", "R", " ", "$", "{", "D", "I", "R",
      "}", " ", "I", "F", " ", "e", "n", "v">>
S_lineLayerOpen == <<"L", "A", "Y", "E", "R", " ", ".", "/", "s", "r", "c",
      " ", "\\">>
S_lineTarget == <<" ", " ", "T", "A", "R", "G", "E", "T", " ", "o", "u",
      "t", "/", "$", "{", "P", "R", "O", "J", "E", "C", "T", "}">>
S_lineMarker == <<"\\">>
S_lineComment == <<"#", " ", "V", "A", "R", " ", "P", "R", "O", "J", "E",
      "C", "T", "=", "n", "o">>
S_lineHook == <<"O", "N", "_", "E", "R", "R", "O", "R", ":", " ", "[", "\"",
      "t", "r", "u", "e", "\"", ",", " ", "\"", "f", "a", "l", "s", "e",
      "\"", "]">>
S_lineBadHook == <<"O", "N", "_", "E", "R", "R", "O", "R", ":", " ", "[",
      "t", "r", "u", "e", "]">>
S_lineLayerBefore == <<"L", "A", "Y", "E", "R", " ", ".", "/", "s", "r",
      "c", " ", "B", "E", "F", "O", "R", "E", " ", "[", "\"", "t", "r", "u",
      "e", "\"", "]", " ", "A", "F", "T", "E", "R", " ", "[", "\"", "t",
      "r", "u", "e", "\"">>

\* strings.Fields: the pieces between runs of white space
RECURSIVE Fields(_)
Fields(s) ==
    IF s = <<>> THEN <<>>
    ELSE IF s[1] = " " THEN Fields(Tail(s))
    ELSE IF \A i \in 1..Len(s) : s[i] # " " THEN <<s>>
    ELSE LET k == CHOOSE i \in 1..Len(s) :
                      s[i] = " " /\ \A j \in 1..(i - 1) : s[j] # " "
         IN  <<SubSeq(s, 1, k - 1)>> \o Fields(SubSeq(s, k + 1, Len(s)))

\* strings.Join(parts, " ")
RECURSIVE Join(_)
Join(parts) ==
    IF parts = <<>> THEN <<>>
    ELSE IF Len(parts) = 1 THEN parts[1]
    ELSE (parts[1] \o <<" ">>) \o Join(Tail(parts))

\* json.Unmarshal into a list of strings, for the texts of the model: an
\* array of string literals without escapes decodes to its strings, and any
\* other text of the model (an unquoted word, an array left open) is an
\* error.
DecodeStringArray(text) ==
    LET s == TrimSpace(text)
        inner == TrimSpace(SubSeq(s, 2, Len(s) - 1))
        items == Split(inner, ",")
        literal(item) ==
            LET w == TrimSpace(item)
            IN  /\ Len(w) >= 2 /\ w[1] = "\"" /\ w[Len(w)] = "\""
                /\ \A i \in 2..(Len(w) - 1) : w[i] \notin {"\"", "\\"}
    IN  IF ~(Len(s) >= 2 /\ s[1] = "[" /\ s[Len(s)] = "]")
        THEN [failed |-> TRUE, value |-> <<>>]
        ELSE IF inner = <<>> THEN [failed |-> FALSE, value |-> <<>>]
        ELSE IF \E i \in 1..Len(items) : ~literal(items[i])
        THEN [failed |-> TRUE, value |-> <<>>]
        ELSE [failed |-> FALSE,
              value |-> [i \in 1..Len(items) |->
                            LET w == TrimSpace(items[i])
                            IN  SubSeq(w, 2, Len(w) - 1)]]

\* a map with one key set
MapSet(map, key, value) ==
    [n \in DOMAIN map \cup {key} |-> IF n = key THEN value ELSE map[n]]

EmptyMap == [n \in {} |-> <<>>]

EmptyConfig ==
    [variables |-> EmptyMap, layers |-> <<>>,
     onBeforeBuild |-> <<>>, onAfterBuild |-> <<>>, onError |-> <<>>]

\* parseVarCommand that stores the value as written.
parseVarCommandRaw(args, config, env) ==
    IF Len(args) = 0 THEN [failed |-> TRUE, config |-> config]
    ELSE LET parts == SplitN2(Join(args))
         IN  IF Len(parts) # 2 THEN [failed |-> TRUE, config |-> config]
             ELSE IF TrimSpace(parts[1]) = <<>> THEN [failed |-> TRUE, config |-> config]
             ELSE [failed |-> FALSE,
                   config |-> [config EXCEPT !.variables =
                                  MapSet(@, TrimSpace(parts[1]), TrimSpace(parts[2]))]]

\* parseVarCommand: KEY=VALUE, split at the first "="; the trimmed value is
\* substituted against the variables defined so far and stored.
parseVarCommand(args, config, env) ==
    IF Len(args) = 0 THEN [failed |-> TRUE, config |-> config]
    ELSE LET varDef == Join(args)
             parts == SplitN2(varDef)
         IN  IF Len(parts) # 2 THEN [failed |-> TRUE, config |-> config]
             ELSE LET key == TrimSpace(parts[1])
                      value == TrimSpace(parts[2])
                  IN  IF key = <<>> THEN [failed |-> TRUE, config |-> config]
                      ELSE LET resolvedValue ==
                                   substituteVariables(value, config.variables, env)
                           IN  [failed |-> FALSE,
                                config |-> [config EXCEPT !.variables =
                                               MapSet(@, key, resolvedValue)]]

\* parseGlobalHookCommand: the arguments joined and decoded as a JSON array
\* of strings.
parseGlobalHookCommand(args) ==
    IF Len(args) = 0 THEN [failed |-> TRUE, value |-> <<>>]
    ELSE DecodeStringArray(Join(args))

\* The loop of parseLayerCommand over the optional arguments, from place i.
RECURSIVE LayerArguments(_, _, _)
LayerArguments(args, i, layer) ==
    IF i > Len(args) THEN [failed |-> FALSE, layer |-> layer]
    ELSE LET arg == ToUpper(args[i])
             fail == [failed |-> TRUE, layer |-> layer]
         IN  IF arg = S_TARGET
             THEN IF i + 1 > Len(args) THEN fail
                  ELSE LayerArguments(args, i + 2, [layer EXCEPT !.target = args[i + 1]])
             ELSE IF arg = S_IF
             THEN IF i + 1 > Len(args) THEN fail
                  ELSE LayerArguments(args, i + 2,
                                      [layer EXCEPT !.condition = args[i + 1]])
             ELSE IF arg = S_TEMPLATE
             THEN IF i + 1 > Len(args) THEN fail
                  ELSE LET stop ==
                               IF \E j \in (i + 1)..Len(args) : ~Contains(args[j], <<"=">>)
                               THEN CHOOSE j \in (i + 1)..Len(args) :
                                        /\ ~Contains(args[j], <<"=">>)
                                        /\ \A k \in (i + 1)..(j - 1) :
                                             Contains(args[k], <<"=">>)
                               ELSE Len(args) + 1
                           RECURSIVE assign(_, _)
                           assign(j, template) ==
                               IF j >= stop THEN template
                               ELSE LET parts == SplitN2(args[j])
                                    IN  assign(j + 1,
                                               MapSet(template, TrimSpace(parts[1]),
                                                      TrimSpace(parts[2])))
                       IN  LayerArguments(args, stop,
                               [layer EXCEPT !.template = assign(i + 1, @)])
             ELSE IF arg \in {S_BEFORE, S_AFTER}
             THEN IF i + 1 > Len(args) THEN fail
                  ELSE IF ~HasPrefix(args[i + 1], <<"[">>) THEN fail
                  ELSE IF \A j \in (i + 1)..Len(args) : ~HasSuffix(args[j], <<"]">>)
                  THEN fail
                  ELSE LET jsonEnd == CHOOSE j \in (i + 1)..Len(args) :
                                          /\ HasSuffix(args[j], <<"]">>)
                                          /\ \A k \in (i + 1)..(j - 1) :
                                               ~HasSuffix(args[k], <<"]">>)
                           decoded == DecodeStringArray(
                                          Join(SubSeq(args, i + 1, jsonEnd)))
                       IN  IF decoded.failed THEN fail
                           ELSE LayerArguments(args, jsonEnd + 1,
                                    IF arg = S_BEFORE
                                    THEN [layer EXCEPT !.before = decoded.value]
                                    ELSE [layer EXCEPT !.after = decoded.value])
             ELSE fail

\* parseLayerCommand: the repository, the optional arguments, and then the
\* substitution of repository, target and template values against the
\* variables defined so far.
parseLayerCommand(args, config, env) ==
    IF Len(args) = 0 THEN [failed |-> TRUE, config |-> config]
    ELSE LET read == LayerArguments(args, 2,
                         [repository |-> args[1], target |-> S_dot,
                          condition |-> <<>>, template |-> EmptyMap,
                          before |-> <<>>, after |-> <<>>])
         IN  IF read.failed THEN [failed |-> TRUE, config |-> config]
             ELSE LET layer ==
                          [read.layer EXCEPT
                             !.repository = substituteVariables(@, config.variables, env),
                             !.target = substituteVariables(@, config.variables, env),
                             !.template =
                                 [k \in DOMAIN @ |->
                                     substituteVariables(@[k], config.variables, env)]]
                  IN  [failed |-> FALSE,
                       config |-> [config EXCEPT !.layers = Append(@, layer)]]

\* parseLine whose hook statements add to the list of the hook.
parseLineAppending(line, config, env) ==
    LET parts == Fields(line)
    IN  IF Len(parts) = 0 THEN [failed |-> FALSE, config |-> config]
        ELSE LET command == ToUpper(parts[1])
                 hook == parseGlobalHookCommand(Tail(parts))
             IN  IF command = S_VAR THEN parseVarCommand(Tail(parts), config, env)
                 ELSE IF command = S_LAYER
                 THEN parseLayerCommand(Tail(parts), config, env)
                 ELSE IF command = S_ON_BEFORE_BUILD
                 THEN [failed |-> hook.failed,
                       config |-> IF hook.failed THEN config
                                  ELSE [config EXCEPT !.onBeforeBuild = @ \o hook.value]]
                 ELSE IF command = S_ON_AFTER_BUILD
                 THEN [failed |-> hook.failed,
                       config |-> IF hook.failed THEN config
                                  ELSE [config EXCEPT !.onAfterBuild = @ \o hook.value]]
                 ELSE IF command = S_ON_ERROR
                 THEN [failed |-> hook.failed,
                       config |-> IF hook.failed THEN config
                                  ELSE [config EXCEPT !.onError = @ \o hook.value]]
                 ELSE [failed |-> TRUE, config |-> config]

\* parseLine: the command is the first field, in any case of letters.
parseLine(line, config, env) ==
    LET parts == Fields(line)
    IN  IF Len(parts) = 0 THEN [failed |-> FALSE, config |-> config]
        ELSE LET command == ToUpper(parts[1])
                 hook == parseGlobalHookCommand(Tail(parts))
             IN  IF command = S_VAR THEN parseVarCommand(Tail(parts), config, env)
                 ELSE IF command = S_LAYER
                 THEN parseLayerCommand(Tail(parts), config, env)
                 ELSE IF command = S_ON_BEFORE_BUILD
                 THEN [failed |-> hook.failed,
                       config |-> IF hook.failed THEN config
                                  ELSE [config EXCEPT !.onBeforeBuild = hook.value]]
                 ELSE IF command = S_ON_AFTER_BUILD
                 THEN [failed |-> hook.failed,
                       config |-> IF hook.failed THEN config
                                  ELSE [config EXCEPT !.onAfterBuild = hook.value]]
                 ELSE IF command = S_ON_ERROR
                 THEN [failed |-> hook.failed,
                       config |-> IF hook.failed THEN config
                                  ELSE [config EXCEPT !.onError = hook.value]]
                 ELSE [failed |-> TRUE, config |-> config]

\* The scanner loop of ParseOtterfile from physical line n on.  continued
\* is the text gathered by the continuation lines read so far, and the
\* loop takes a continuation to be open when that text is not empty.
RECURSIVE ParseFrom(_, _, _, _, _, _)
ParseFrom(lines, n, continuedLine, startLineNumber, config, env) ==
    IF n > Len(lines)
    THEN IF Len(continuedLine) > 0
         THEN [failed |-> TRUE, line |-> startLineNumber, config |-> EmptyConfig]
         ELSE [failed |-> FALSE, line |-> 0, config |-> config]
    ELSE LET line == TrimSpace(lines[n])
         IN  IF Len(continuedLine) = 0 /\ (line = <<>> \/ HasPrefix(line, <<"#">>))
             THEN ParseFrom(lines, n + 1, continuedLine, startLineNumber, config, env)
             ELSE IF HasSuffix(line, <<"\\">>)
             THEN LET text == TrimSpace(TrimSuffix(line, <<"\\">>))
                  IN  ParseFrom(lines, n + 1,
                          IF Len(continuedLine) > 0
                          THEN (continuedLine \o <<" ">>) \o text ELSE text,
                          IF Len(continuedLine) = 0 THEN n ELSE startLineNumber,
                          config, env)
             ELSE LET fullLine == IF Len(continuedLine) > 0
                                  THEN (continuedLine \o <<" ">>) \o line ELSE line
                      reportLineNumber == IF Len(continuedLine) > 0
                                          THEN startLineNumber ELSE n
                      parsed == parseLine(fullLine, config, env)
                  IN  IF parsed.failed
                      THEN [failed |-> TRUE, line |-> reportLineNumber,
                            config |-> EmptyConfig]
                      ELSE ParseFrom(lines, n + 1, <<>>, startLineNumber,
                                     parsed.config, env)

\* ParseOtterfile on the physical lines of a file that could be opened.
ParseOtterfile(lines, env) == ParseFrom(lines, 1, <<>>, 0, EmptyConfig, env)

NoParse == [failed |-> FALSE, line |-> 0, config |-> EmptyConfig]

\* The physical lines a configuration file of the model is made of.
FileLines ==
    {S_lineVarDemo, S_lineVarOther, S_lineVarDir, S_lineLayer,
     S_lineLayerTemplate, S_lineLayerDir, S_lineLayerOpen, S_lineTarget,
     S_lineMarker, S_lineComment, S_lineHook, S_lineBadHook, S_lineLayerBefore}

Otterfiles == UNION {[1..n -> FileLines] : n \in 0..MaxFileLines}

\* The hosts of a parse: no variable set, OTTER_PROJECT set, or OTTER_ENV
\* set to production.
ParseHosts ==
    {[NoHost EXCEPT !.goos = S_linux, !.goarch = S_amd64, !.env = e] :
        e \in {EmptyMap,
               [n \in {S_OTTER_PROJECT} |-> S_fromEnv],
               [n \in {S_OTTER_ENV} |-> S_production]}}

\* The configuration as runBuild hands it to FilterApplicableLayers.
BuildConfigOf(config, host) ==
    [layers |-> [i \in 1..Len(config.layers) |->
                    [cond |-> ConditionVerdict(config.layers[i].condition, host),
                     before |-> config.layers[i].before,
                     after |-> config.layers[i].after]],
     onBeforeBuild |-> config.onBeforeBuild,
     onAfterBuild |-> config.onAfterBuild,
     onError |-> config.onError]

-----------------------------------------------------------------------------
(* Layer sources *)

\* most sources acquired one after another with one cache directory
MaxAcquire == 2

S_cwd == <<"/", "w">>
S_cacheDir == <<"/", "w", "/", ".", "o", "t", "t", "e", "r", "/", "c", "a",
      "c", "h", "e">>
S_fileScheme == <<"f", "i", "l", "e", ":", "/", "/">>
S_localDir == <<"l", "o", "c", "a", "l", "-", "d", "i", "r">>
S_commit == <<"0", "a", "1", "b", "2", "c", "3", "d">>
S_localRel == <<".", "/", "x">>
S_localParent == <<".", ".", "/", "x">>
S_localAbs == <<"/", "x">>
S_localUri == <<"f", "i", "l", "e", ":", "/", "/", "/", "x">>
S_localUriHost == <<"f", "i", "l", "e", ":", "/", "/", "x">>
S_localDrive == <<"c", ":", "/", "x">>
S_localDriveBack == <<"C", ":", "\\", "x">>
S_localDigit == <<"1", ":", "/", "x">>
S_remoteHttps == <<"h", "t", "t", "p", "s", ":", "/", "/", "h", "/", "r",
      ".", "g", "i", "t">>
S_remoteSsh == <<"g", "i", "t", "@", "h", ":", "u", "/", "r", ".", "g", "i",
      "t">>
S_remotePlain == <<"l", "a", "y", "e", "r", "s", "/", "x">>
S_pathWX == <<"/", "w", "/", "x">>
S_pathX == <<"/", "x">>
S_hashA == <<"5", "f", "3", "a", "9", "c", "0", "1">>
S_hashB == <<"c", "2", "7", "e", "4", "4", "1", "0">>

\* isLocalLayer: a source that begins with ./, ../, / or file://, or whose
\* second character is ":" and third a slash of either kind.
isLocalLayer(repoURL) ==
    \/ HasPrefix(repoURL, <<".", "/">>) \/ HasPrefix(repoURL, <<".", ".", "/">>)
    \/ HasPrefix(repoURL, <<"/">>)
    \/ HasPrefix(repoURL, S_fileScheme)
    \/ /\ Len(repoURL) >= 3 /\ repoURL[2] = ":" /\ repoURL[3] \in {"\\", "/"}

\* The path component of a file:// URI without escapes, query or fragment:
\* what follows the host, which ends at the first "/".
UrlPath(repoURL) ==
    LET rest == TrimPrefix(repoURL, S_fileScheme)
    IN  IF \E i \in 1..Len(rest) : rest[i] = "/"
        THEN SubSeq(rest,
                    CHOOSE i \in 1..Len(rest) :
                        rest[i] = "/" /\ \A j \in 1..(i - 1) : rest[j] # "/",
                    Len(rest))
        ELSE <<>>

\* filepath.Clean of an absolute Unix path given by its elements.
RECURSIVE CleanElements(_, _)
CleanElements(elements, kept) ==
    IF elements = <<>> THEN kept
    ELSE LET e == Head(elements)
         IN  IF e = <<>> \/ e = <<".">> THEN CleanElements(Tail(elements), kept)
             ELSE IF e = <<".", ".">>
             THEN CleanElements(Tail(elements),
                                IF kept = <<>> THEN kept
                                ELSE SubSeq(kept, 1, Len(kept) - 1))
             ELSE CleanElements(Tail(elements), Append(kept, e))

RECURSIVE JoinElements(_)
JoinElements(elements) ==
    IF elements = <<>> THEN <<>>
    ELSE (<<"/">> \o Head(elements)) \o JoinElements(Tail(elements))

Clean(path) ==
    LET kept == CleanElements(Split(path, "/"), <<>>)
    IN  IF kept = <<>> THEN <<"/">> ELSE JoinElements(kept)

\* filepath.IsAbs and filepath.Abs on Unix, the working directory being /w
IsAbs(path) == HasPrefix(path, <<"/">>)
Abs(path) == IF IsAbs(path) THEN Clean(path) ELSE Clean((S_cwd \o <<"/">>) \o path)

\* os.Stat: what a path names in a file system.  fs gives the kind of the
\* paths of the model that exist; the working directory is a directory.
Stat(fs, path) ==
    LET p == Abs(path)
    IN  IF p = S_cwd THEN "dir"
        ELSE IF p \in DOMAIN fs THEN fs[p]
        ELSE "missing"

\* handleLocalLayer: the path of a file:// URI or the source itself, made
\* absolute; an error unless it names an existing directory.
handleLocalLayer(repoURL, fs) ==
    LET named == IF HasPrefix(repoURL, S_fileScheme) THEN UrlPath(repoURL) ELSE repoURL
        localPath == IF ~IsAbs(named) THEN Abs(named) ELSE named
    IN  IF Stat(fs, localPath) \in {"dir", "repo", "emptyRepo"}
        THEN [path |-> localPath, failed |-> FALSE]
        ELSE [path |-> <<>>, failed |-> TRUE]

\* The first four bytes of the SHA-256 hash of a source, in hexadecimal.
\* The two remote URLs of the same repository stand for two sources whose
\* hashes coincide.
Sha256Prefix(repoURL) ==
    IF repoURL \in {S_remoteHttps, S_remoteSsh} THEN S_hashA ELSE S_hashB

\* GetRepoDirectoryName: the last segment of the source without ".git",
\* after "/" and after ":", then "-" and the hash of the whole source.
GetRepoDirectoryName(repoURL) ==
    LET trimmed == TrimSuffix(repoURL, <<".", "g", "i", "t">>)
        afterSlash == IF Contains(trimmed, <<"/">>)
                      THEN Split(trimmed, "/")[Len(Split(trimmed, "/"))]
                      ELSE trimmed
        afterColon == IF Contains(afterSlash, <<":">>)
                      THEN Split(afterSlash, ":")[Len(Split(afterSlash, ":"))]
                      ELSE afterSlash
    IN  (afterColon \o <<"-">>) \o Sha256Prefix(repoURL)

\* handleRemoteRepository that clones whether or not the cache holds the
\* repository.
handleRemoteRepositoryAlwaysClone(repoURL, cache, outcome) ==
    LET repoName == GetRepoDirectoryName(repoURL)
        localPath == (S_cacheDir \o <<"/">>) \o repoName
    IN  [kind |-> "clone", path |-> localPath, existed |-> FALSE,
         failed |-> outcome.clone # "ok",
         cache |-> [cache EXCEPT
                       !.dir = TRUE,
                       !.repos = IF outcome.clone = "ok" \/ outcome.leftover
                                 THEN cache.repos \cup {repoName} ELSE @]]

\* handleRemoteRepository: the repository at the cache path is updated when
\* its .git exists, and cloned otherwise.  updateRepository fails when the
\* repository cannot be opened or the pull fails, and a pull that finds
\* nothing new is a success.  cloneRepository creates the cache directory
\* before it clones; a clone that fails may leave a .git behind.
handleRemoteRepository(repoURL, cache, outcome) ==
    LET repoName == GetRepoDirectoryName(repoURL)
        localPath == (S_cacheDir \o <<"/">>) \o repoName
    IN  IF cache.dir /\ repoName \in cache.repos
        THEN [kind |-> "update", path |-> localPath, existed |-> TRUE,
              failed |-> outcome.pull \notin {"ok", "upToDate"},
              cache |-> cache]
        ELSE [kind |-> "clone", path |-> localPath, existed |-> FALSE,
              failed |-> outcome.clone # "ok",
              cache |-> [cache EXCEPT
                            !.dir = TRUE,
                            !.repos = IF outcome.clone = "ok" \/ outcome.leftover
                                      THEN cache.repos \cup {repoName} ELSE @]]

\* CloneOrUpdateLayer: a local source never reaches the cache.
CloneOrUpdateLayer(repoURL, fs, cache, outcome) ==
    IF isLocalLayer(repoURL)
    THEN LET r == handleLocalLayer(repoURL, fs)
         IN  [kind |-> "local", path |-> r.path, existed |-> FALSE,
              failed |-> r.failed, cache |-> cache]
    ELSE handleRemoteRepository(repoURL, cache, outcome)

\* What the environment decides for one acquisition: whether the clone
\* succeeds and whether a failed clone leaves a .git behind, and how the
\* pull ends.
AcquireOutcomes ==
    [clone : {"ok", "failed"}, leftover : BOOLEAN,
     pull : {"ok", "upToDate", "failed"}]

\* The outcomes that an acquisition can tell apart: none for a local
\* source, those of the pull for a repository of the cache, those of the
\* clone otherwise.
OutcomesOf(repoURL, cache) ==
    IF isLocalLayer(repoURL)
    THEN {[clone |-> "ok", leftover |-> FALSE, pull |-> "ok"]}
    ELSE IF cache.dir /\ GetRepoDirectoryName(repoURL) \in cache.repos
    THEN {o \in AcquireOutcomes : o.clone = "ok" /\ ~o.leftover}
    ELSE {o \in AcquireOutcomes :
            o.pull = "ok" /\ (o.leftover => o.clone = "failed")}

\* What a path names for GetRepositoryCommit: a path in the cache is a
\* repository when it was cloned.
StatWithCache(fs, cache, path) ==
    IF HasPrefix(path, S_cacheDir \o <<"/">>)
    THEN IF cache.dir /\ TrimPrefix(path, S_cacheDir \o <<"/">>) \in cache.repos
         THEN "repo" ELSE "missing"
    ELSE Stat(fs, path)

\* GetRepositoryCommit on a path of a given kind.  os.Stat of path/.git
\* answers "does not exist" for a missing path as for a directory without
\* .git, and another error below a regular file; a repository without
\* commit has no HEAD reference.
GetRepositoryCommit(kind) ==
    IF kind \in {"missing", "dir"} THEN [value |-> S_localDir, failed |-> FALSE]
    ELSE IF kind = "file" THEN [value |-> <<>>, failed |-> TRUE]
    ELSE IF kind = "emptyRepo" THEN [value |-> <<>>, failed |-> TRUE]
    ELSE [value |-> S_commit, failed |-> FALSE]

\* The sources of the model.
LocalSources ==
    {S_localRel, S_localParent, S_localAbs, S_localUri, S_localUriHost,
     S_localDrive, S_localDriveBack, S_localDigit}
RemoteSources == {S_remoteHttps, S_remoteSsh, S_remotePlain}
SourceLists ==
    UNION {[1..n -> LocalSources \cup RemoteSources] : n \in 0..MaxAcquire}

\* The file systems of the model: what /w/x and /x name.
FileSystems ==
    {[p \in {S_pathWX, S_pathX} |-> IF p = S_pathWX THEN k[1] ELSE k[2]] :
        k \in {<<"missing", "missing">>, <<"file", "dir">>, <<"dir", "missing">>,
               <<"repo", "emptyRepo">>, <<"dir", "dir">>}}

\* The cache a build finds: no .otter directory, a .otter directory without
\* cache, or a cache that is empty or holds a repository.
Caches ==
    {[otter |-> FALSE, dir |-> FALSE, repos |-> {}],
     [otter |-> TRUE, dir |-> FALSE, repos |-> {}],
     [otter |-> TRUE, dir |-> TRUE, repos |-> {}],
     [otter |-> TRUE, dir |-> TRUE, repos |-> {GetRepoDirectoryName(S_remotePlain)}]}

\* The paths GetRepositoryCommit is called with.
CommitPaths ==
    {S_pathWX, S_pathX, S_cwd,
     (S_cacheDir \o <<"/">>) \o GetRepoDirectoryName(S_remotePlain)}

NoCommit == [path |-> <<>>, value |-> <<>>, failed |-> FALSE]
NoFileSystem == [p \in {S_pathWX, S_pathX} |-> "missing"]
NoCache == [otter |-> FALSE, dir |-> FALSE, repos |-> {}]

-----------------------------------------------------------------------------
(* Configurations with repeated hook statements and an empty variable *)

S_lineVarEmpty == <<"V", "A", "R", " ", "D", "I", "R", "=">>
S_lineHookAgain == <<"O", "N", "_", "E", "R", "R", "O", "R", ":", " ", "[",
      "\"", "c", "m", "d", "\"", "]">>
S_lineHookBefore == <<"O", "N", "_", "B", "E", "F", "O", "R", "E", "_", "B",
      "U", "I", "L", "D", ":", " ", "[", "\"", "t", "r", "u", "e", "\"",
      "]">>
S_lineHookBeforeAgain == <<"o", "n", "_", "b", "e", "f", "o", "r", "e", "_",
      "b", "u", "i", "l", "d", ":", " ", "[", "\"", "c", "m", "d", "\"",
      ",", " ", "\"", "t", "r", "u", "e", "\"", "]">>
S_lineHookAfter == <<"O", "N", "_", "A", "F", "T", "E", "R", "_", "B", "U",
      "I", "L", "D", ":", " ", "[", "\"", "c", "m", "d", "\"", "]">>

HookFileLines ==
    {S_lineVarEmpty, S_lineLayerDir, S_lineLayer, S_lineHook, S_lineHookAgain,
     S_lineHookBefore, S_lineHookBeforeAgain, S_lineHookAfter}

HookOtterfiles == UNION {[1..n -> HookFileLines] : n \in 0..MaxFileLines}

-----------------------------------------------------------------------------
(* Template rendering of copied files *)

\* most pieces a file content of the model is made of
MaxPieces == 3

S_open == <<"{", "{">>
S_close == <<"}", "}">>
S_text == <<"x">>
S_refA == <<"{", "{", ".", "A", "}", "}">>
S_refB == <<"{", "{", " ", ".", "B", " ", "}", "}">>
S_valueA == <<"v">>
S_valueB == <<"w">>
S_noValue == <<"<", "n", "o", " ", "v", "a", "l", "u", "e", ">">>
S_nameA == <<"A">>
S_nameB == <<"B">>

\* containsTemplateSyntax: the content holds "{{" and holds "}}", in any
\* order.
containsTemplateSyntax(content) == Contains(content, S_open) /\ Contains(content, S_close)

\* the first place from i on where sub begins in s, or 0
IndexFrom(s, sub, i) ==
    LET places == {k \in i..(Len(s) - Len(sub) + 1) :
                      SubSeq(s, k, k + Len(sub) - 1) = sub}
    IN  IF places = {} THEN 0 ELSE CHOOSE k \in places : \A j \in places : k <= j

\* The text between the delimiters names a key of the data: a dot and
\* letters.
IsFieldReference(inner) ==
    /\ Len(inner) >= 2
    /\ inner[1] = "."
    /\ \A k \in 2..Len(inner) : inner[k] \in {"A", "B"}

\* template.Parse and Execute on the content from place i on, the data being
\* the map of template variables.  Text outside the delimiters is copied; an
\* action that names a key prints its value, and for a key the map does not
\* hold it prints missing, the text of the template library for a missing
\* key; an action that is not closed and an action that is empty or no
\* field reference is an error.  Field references and such broken actions
\* are the only actions of the contents of the model.
RECURSIVE processTemplateFrom(_, _, _, _)
processTemplateFrom(content, i, templateVars, missing) ==
    LET open == IndexFrom(content, S_open, i)
    IN  IF open = 0
        THEN [text |-> SubSeq(content, i, Len(content)), failed |-> FALSE]
        ELSE LET close == IndexFrom(content, S_close, open + 2)
             IN  IF close = 0 THEN [text |-> <<>>, failed |-> TRUE]
                 ELSE LET inner == TrimSpace(SubSeq(content, open + 2, close - 1))
                          name == SubSeq(inner, 2, Len(inner))
                          rest == processTemplateFrom(content, close + 2,
                                                      templateVars, missing)
                      IN  IF ~IsFieldReference(inner) \/ rest.failed
                          THEN [text |-> <<>>, failed |-> TRUE]
                          ELSE [text |-> (SubSeq(content, i, open - 1)
                                            \o (IF name \in DOMAIN templateVars
                                                THEN templateVars[name]
                                                ELSE missing))
                                            \o rest.text,
                                failed |-> FALSE]

processTemplate(content, templateVars, missing) ==
    processTemplateFrom(content, 1, templateVars, missing)

\* The content copyFile writes: the rendered content when there is a
\* template variable and the content holds both delimiters, and the content
\* of the source otherwise.
finalContent(srcContent, templateVars, missing) ==
    IF DOMAIN templateVars # {} /\ containsTemplateSyntax(srcContent)
    THEN processTemplate(srcContent, templateVars, missing)
    ELSE [text |-> srcContent, failed |-> FALSE]

\* The contents of the model: up to MaxPieces pieces, each a letter, a
\* reference or a delimiter.
Pieces == {S_text, S_refA, S_refB, S_open, S_close}
PieceLists == UNION {[1..n -> Pieces] : n \in 0..MaxPieces}

RECURSIVE Flatten(_)
Flatten(pieces) == IF pieces = <<>> THEN <<>> ELSE Head(pieces) \o Flatten(Tail(pieces))

\* The template variables of a layer: none, A, or A and B.
TemplateVars ==
    {EmptyMap,
     [n \in {S_nameA} |-> S_valueA],
     [n \in {S_nameA, S_nameB} |-> IF n = S_nameA THEN S_valueA ELSE S_valueB]}

\* What the template library prints for a key that the map does not hold:
\* the zero value of the element type or "<no value>".
MissingKeyTexts == {<<>>, S_noValue}

-----------------------------------------------------------------------------
(* Runs of the tool that share one cache directory *)

\* the number of runs that acquire a source at the same time
MaxRuns == 2

Runs == 1..MaxRuns

\* The caches the runs find: no cache directory, an empty one, or one that
\* holds a repository.
SharedCaches == {c \in Caches : c.otter}

-----------------------------------------------------------------------------
(* Idle values of the variables a specification does not use *)

mIdle == mPattern = <<>> /\ mPath = <<>> /\ mDone = FALSE /\ mResult = FALSE
xIdle ==
    /\ xCommands = <<>> /\ xOnError = <<>> /\ xCall = "idle"
    /\ xRan = <<>> /\ xCleanupRan = <<>> /\ xErr = NoError /\ xCleanupErr = NoError
cIdle ==
    /\ cProject = [exists |-> FALSE, lines |-> <<>>] /\ cLayer = NoLayer
    /\ cTarget = {} /\ cPatterns = <<>> /\ cState = "idle"
gIdle ==
    /\ gLayers = <<>> /\ gProject = <<>> /\ gTarget = {} /\ gIdx = 0
    /\ gErr = FALSE /\ gWrites = <<>>
bIdle ==
    /\ bConfig = NoConfig /\ bEnv = EnvReady
    /\ bPc = "idle" /\ bApplicable = <<>> /\ bIdx = 0
    /\ bLog = <<>> /\ bResult = "idle" /\ bCount = 0
sIdle ==
    /\ sText = <<>> /\ sVariables = <<>> /\ sEnv = <<>>
    /\ sDone = FALSE /\ sResult = <<>>
fIdle ==
    /\ fConditions = <<>> /\ fHost = NoHost /\ fDone = FALSE
    /\ fResult = [layers |-> <<>>, failed |-> FALSE]
pIdle ==
    /\ pLines = <<>> /\ pHost = NoHost /\ pPc = "idle" /\ pParse = NoParse
    /\ pApplicable = <<>> /\ pIdx = 0 /\ pTouched = <<>> /\ pResult = "idle"
aIdle ==
    /\ aFs = NoFileSystem /\ aCache = NoCache /\ aSources = <<>> /\ aIdx = 0
    /\ aPc = "idle" /\ aLog = <<>> /\ aCommit = NoCommit /\ aResult = "idle"
tIdle ==
    /\ tPieces = <<>> /\ tTemplateVars = EmptyMap /\ tTarget = {} /\ tResult = "idle"
rIdle ==
    /\ rSources = <<>> /\ rNames = <<>> /\ rCache = NoCache /\ rPc = <<>>
    /\ rSaw = <<>>
    /\ rResult = <<>>

-----------------------------------------------------------------------------
(* SpecMatch: matchPattern on every pattern and path of the bounded sets *)

InitMatch ==
    /\ mPattern \in MatchPatterns
    /\ mPath \in MatchPaths
    /\ mDone = FALSE
    /\ mResult = FALSE
    /\ xIdle /\ cIdle /\ gIdle /\ bIdle /\ sIdle /\ fIdle /\ pIdle /\ aIdle /\ tIdle /\ rIdle

MatchPattern ==
    /\ ~mDone
    /\ mDone' = TRUE
    /\ mResult' = matchPattern(mPattern, mPath)
    /\ UNCHANGED <<mPattern, mPath, xVars, cVars, gVars, bVars, sVars, fVars, pVars, aVars, tVars, rVars>>

NextMatch == MatchPattern

SpecMatch == InitMatch /\ [][NextMatch]_vars

-----------------------------------------------------------------------------
(* SpecExec: one call of the hook executor on every pair of command lists *)

InitExec ==
    /\ xCommands \in CommandLists(MaxCmds)
    /\ xOnError \in CommandLists(MaxCleanup)
    /\ xCall = "none"
    /\ xRan = <<>> /\ xCleanupRan = <<>>
    /\ xErr = NoError /\ xCleanupErr = NoError
    /\ mIdle /\ cIdle /\ gIdle /\ bIdle /\ sIdle /\ fIdle /\ pIdle /\ aIdle /\ tIdle /\ rIdle

CallExecuteCommands ==
    /\ xCall = "none"
    /\ \E exits \in Outcomes(xCommands) :
         LET r == ExecuteCommands(xCommands, "test", exits)
         IN  /\ xRan' = r.ran
             /\ xErr' = r.err
    /\ xCall' = "ExecuteCommands"
    /\ UNCHANGED <<xCommands, xOnError, xCleanupRan, xCleanupErr>>
    /\ UNCHANGED <<mVars, cVars, gVars, bVars, sVars, fVars, pVars, aVars, tVars, rVars>>

CallExecuteCommandsWithCleanup ==
    /\ xCall = "none"
    /\ \E exits \in Outcomes(xCommands), cleanupExits \in Outcomes(xOnError) :
         LET r == ExecuteCommandsWithCleanup(xCommands, "test", xOnError,
                                             exits, cleanupExits)
         IN  /\ xRan' = r.ran
             /\ xErr' = r.err
             /\ xCleanupRan' = r.cleanupRan
             /\ xCleanupErr' = r.cleanupErr
    /\ xCall' = "ExecuteCommandsWithCleanup"
    /\ UNCHANGED <<xCommands, xOnError>>
    /\ UNCHANGED <<mVars, cVars, gVars, bVars, sVars, fVars, pVars, aVars, tVars, rVars>>

NextExec == CallExecuteCommands \/ CallExecuteCommandsWithCleanup

SpecExec == InitExec /\ [][NextExec]_vars

-----------------------------------------------------------------------------
(* SpecCopy: the project patterns are loaded and one layer is merged into  *)
(* an empty target                                                         *)

InitCopy ==
    /\ cProject \in IgnoreFiles
    /\ cLayer \in Layers(1)
    /\ cTarget = {}
    /\ cPatterns = <<>>
    /\ cState = "new"
    /\ mIdle /\ xIdle /\ gIdle /\ bIdle /\ sIdle /\ fIdle /\ pIdle /\ aIdle /\ tIdle /\ rIdle

CallLoadIgnorePatterns ==
    /\ cState = "new"
    /\ cPatterns' = LoadIgnorePatterns(cPatterns, cProject)
    /\ cState' = "loaded"
    /\ UNCHANGED <<cProject, cLayer, cTarget>>
    /\ UNCHANGED <<mVars, xVars, gVars, bVars, sVars, fVars, pVars, aVars, tVars, rVars>>

CallCopyLayer ==
    /\ cState = "loaded"
    /\ LET r == CopyLayer(cPatterns, cLayer, cTarget)
       IN  /\ cTarget' = r.target
           /\ cState' = IF r.failed THEN "failed" ELSE "copied"
           /\ cPatterns' = r.IgnorePatterns
    /\ UNCHANGED <<cProject, cLayer>>
    /\ UNCHANGED <<mVars, xVars, gVars, bVars, sVars, fVars, pVars, aVars, tVars, rVars>>

NextCopy == CallLoadIgnorePatterns \/ CallCopyLayer

SpecCopy == InitCopy /\ [][NextCopy]_vars

-----------------------------------------------------------------------------
(* SpecMerge: the layer loop of runBuild, every layer merged into the same *)
(* target directory with one FileOperations value                          *)

InitMerge ==
    /\ gLayers \in LayerRuns
    /\ gProject \in {<<>>, <<S_README>>, <<S_temp>>}
    /\ gTarget = {}
    /\ gIdx = 0
    /\ gErr = FALSE
    /\ gWrites = <<>>
    /\ mIdle /\ xIdle /\ cIdle /\ bIdle /\ sIdle /\ fIdle /\ pIdle /\ aIdle /\ tIdle /\ rIdle

\* One turn of the loop: CopyLayer of the next layer; its error ends the run.
ApplyLayer ==
    /\ gIdx < Len(gLayers)
    /\ ~gErr
    /\ LET layer == gLayers[gIdx + 1]
           r == CopyLayer(gProject, layer, gTarget)
       IN  /\ gTarget' = r.target
           /\ gErr' = r.failed
           /\ gProject' = r.IgnorePatterns
           /\ gWrites' = gWrites \o
                 [i \in 1..Len(r.written) |->
                     [layer |-> layer.id, path |-> r.written[i]]]
    /\ gIdx' = gIdx + 1
    /\ UNCHANGED gLayers
    /\ UNCHANGED <<mVars, xVars, cVars, bVars, sVars, fVars, pVars, aVars, tVars, rVars>>

NextMerge == ApplyLayer

SpecMerge == InitMerge /\ [][NextMerge]_vars

-----------------------------------------------------------------------------
(* SpecBuild: one run of runBuild.  bLog is the list of the steps the run  *)
(* has executed, each with the declared place of its layer (0 for a step   *)
(* of the whole build), the command it ran and whether it succeeded.       *)

Step(kind, layer, cmd, ok) == [step |-> kind, layer |-> layer, cmd |-> cmd, ok |-> ok]

InitBuild ==
    /\ bConfig \in BuildConfigs
    /\ bEnv \in BuildEnvs
    /\ bPc = "start"
    /\ bApplicable = <<>>
    /\ bIdx = 0
    /\ bLog = <<>>
    /\ bResult = "running"
    /\ bCount = 0
    /\ mIdle /\ xIdle /\ cIdle /\ gIdle /\ sIdle /\ fIdle /\ pIdle /\ aIdle /\ tIdle /\ rIdle

\* runBuild up to its layer loop.
BuildStart ==
    /\ bPc = "start"
    /\ LET outcome == runBuildStart(bEnv, bConfig)
       IN  IF outcome = "loop"
           THEN /\ bPc' = "acquire"
                /\ bApplicable' = FilterApplicableLayers(bConfig).layers
                /\ bIdx' = 1
                /\ bResult' = bResult
           ELSE /\ bPc' = "done"
                /\ bResult' = outcome
                /\ UNCHANGED <<bApplicable, bIdx>>
    /\ UNCHANGED <<bConfig, bEnv, bLog, bCount>>
    /\ UNCHANGED <<mVars, xVars, cVars, gVars, sVars, fVars, pVars, aVars, tVars, rVars>>

\* CloneOrUpdateLayer of the current layer: its error is returned.
BuildAcquire ==
    /\ bPc = "acquire"
    /\ \E ok \in BOOLEAN :
         /\ bLog' = Append(bLog, Step("acquire", bApplicable[bIdx], "", ok))
         /\ IF ok THEN bPc' = "merge" /\ bResult' = bResult
                  ELSE bPc' = "done" /\ bResult' = "error"
    /\ UNCHANGED <<bConfig, bEnv, bApplicable, bIdx, bCount>>
    /\ UNCHANGED <<mVars, xVars, cVars, gVars, sVars, fVars, pVars, aVars, tVars, rVars>>

\* CopyLayer of the current layer: its error is returned; after a success
\* the loop goes on with the next applicable layer.
BuildMerge ==
    /\ bPc = "merge"
    /\ \E ok \in BOOLEAN :
         /\ bLog' = Append(bLog, Step("merge", bApplicable[bIdx], "", ok))
         /\ IF ~ok THEN bPc' = "done" /\ bResult' = "error" /\ bIdx' = bIdx
            ELSE IF bIdx < Len(bApplicable)
                 THEN bPc' = "acquire" /\ bIdx' = bIdx + 1 /\ bResult' = bResult
                 ELSE bPc' = "finish" /\ bIdx' = bIdx /\ bResult' = bResult
    /\ UNCHANGED <<bConfig, bEnv, bApplicable, bCount>>
    /\ UNCHANGED <<mVars, xVars, cVars, gVars, sVars, fVars, pVars, aVars, tVars, rVars>>

\* The end of runBuild: the count of layers is printed and nil is returned.
BuildFinish ==
    /\ bPc = "finish"
    /\ bCount' = AppliedCount(bConfig, bApplicable)
    /\ bResult' = "ok"
    /\ bPc' = "done"
    /\ UNCHANGED <<bConfig, bEnv, bApplicable, bIdx, bLog>>
    /\ UNCHANGED <<mVars, xVars, cVars, gVars, sVars, fVars, pVars, aVars, tVars, rVars>>

NextBuild == BuildStart \/ BuildAcquire \/ BuildMerge \/ BuildFinish

SpecBuild == InitBuild /\ [][NextBuild]_vars

-----------------------------------------------------------------------------
(* SpecSubst: substituteVariables on every text, variable map and           *)
(* environment of the bounded sets                                          *)

InitSubst ==
    /\ sText \in SubstTexts
    /\ sVariables \in SubstVariables
    /\ sEnv \in SubstEnvs
    /\ sDone = FALSE
    /\ sResult = <<>>
    /\ mIdle /\ xIdle /\ cIdle /\ gIdle /\ bIdle /\ fIdle /\ pIdle /\ aIdle /\ tIdle /\ rIdle

CallSubstituteVariables ==
    /\ ~sDone
    /\ sDone' = TRUE
    /\ sResult' = substituteVariables(sText, sVariables, sEnv)
    /\ UNCHANGED <<sText, sVariables, sEnv>>
    /\ UNCHANGED <<mVars, xVars, cVars, gVars, bVars, fVars, pVars, aVars, tVars, rVars>>

NextSubst == CallSubstituteVariables

SpecSubst == InitSubst /\ [][NextSubst]_vars

-----------------------------------------------------------------------------
(* SpecFilter: FilterApplicableLayers on the declared conditions of a       *)
(* configuration, on one host                                               *)

InitFilter ==
    /\ fConditions \in ConditionedLayers
    /\ fHost \in Hosts
    /\ fDone = FALSE
    /\ fResult = [layers |-> <<>>, failed |-> FALSE]
    /\ mIdle /\ xIdle /\ cIdle /\ gIdle /\ bIdle /\ sIdle /\ pIdle /\ aIdle /\ tIdle /\ rIdle

CallFilterApplicableLayers ==
    /\ ~fDone
    /\ fDone' = TRUE
    /\ fResult' = FilterApplicableLayers(ConditionedConfig(fConditions, fHost))
    /\ UNCHANGED <<fConditions, fHost>>
    /\ UNCHANGED <<mVars, xVars, cVars, gVars, bVars, sVars, pVars, aVars, tVars, rVars>>

NextFilter == CallFilterApplicableLayers

SpecFilter == InitFilter /\ [][NextFilter]_vars

-----------------------------------------------------------------------------
(* SpecParse: runBuild from the lines of a configuration file: the parse,   *)
(* the filter, and the loop over the applicable layers.  pTouched lists the *)
(* declared places of the layers the loop has begun to process.             *)

InitParse ==
    /\ pLines \in Otterfiles
    /\ pHost \in ParseHosts
    /\ pPc = "start"
    /\ pParse = NoParse
    /\ pApplicable = <<>>
    /\ pIdx = 0
    /\ pTouched = <<>>
    /\ pResult = "running"
    /\ mIdle /\ xIdle /\ cIdle /\ gIdle /\ bIdle /\ sIdle /\ fIdle /\ aIdle /\ tIdle /\ rIdle

ParseFile ==
    /\ pPc = "start"
    /\ pParse' = ParseOtterfile(pLines, pHost.env)
    /\ pPc' = "parsed"
    /\ UNCHANGED <<pLines, pHost, pApplicable, pIdx, pTouched, pResult>>
    /\ UNCHANGED <<mVars, xVars, cVars, gVars, bVars, sVars, fVars, aVars, tVars, rVars>>

\* The parse error, the filter and its error, as runBuild handles them.
FilterParsed ==
    /\ pPc = "parsed"
    /\ LET config == BuildConfigOf(pParse.config, pHost)
           start == runBuildStart([EnvReady EXCEPT !.parses = ~pParse.failed], config)
       IN  /\ pPc' = IF start = "loop" THEN "loop" ELSE "done"
           /\ pResult' = IF start = "loop" THEN "running" ELSE start
           /\ pApplicable' = IF start = "loop"
                             THEN FilterApplicableLayers(config).layers ELSE <<>>
    /\ UNCHANGED <<pLines, pHost, pParse, pIdx, pTouched>>
    /\ UNCHANGED <<mVars, xVars, cVars, gVars, bVars, sVars, fVars, aVars, tVars, rVars>>

\* One turn of the loop: the acquisition and the merge of the next layer,
\* which succeed or fail as the environment decides.
ProcessLayer ==
    /\ pPc = "loop"
    /\ pIdx < Len(pApplicable)
    /\ pTouched' = Append(pTouched, pApplicable[pIdx + 1])
    /\ pIdx' = pIdx + 1
    /\ \E ok \in BOOLEAN :
         IF ~ok THEN pPc' = "done" /\ pResult' = "error"
         ELSE IF pIdx + 1 = Len(pApplicable) THEN pPc' = "done" /\ pResult' = "ok"
         ELSE pPc' = "loop" /\ pResult' = "running"
    /\ UNCHANGED <<pLines, pHost, pParse, pApplicable>>
    /\ UNCHANGED <<mVars, xVars, cVars, gVars, bVars, sVars, fVars, aVars, tVars, rVars>>

NextParse == ParseFile \/ FilterParsed \/ ProcessLayer

SpecParse == InitParse /\ [][NextParse]_vars

-----------------------------------------------------------------------------
(* SpecAcquire: a build acquires its layer sources one after another *)

InitAcquire ==
    /\ aFs \in FileSystems
    /\ aCache \in Caches
    /\ aSources \in SourceLists
    /\ aIdx = 1
    /\ aPc = "start"
    /\ aLog = <<>>
    /\ aCommit = NoCommit
    /\ aResult = "running"
    /\ mIdle /\ xIdle /\ cIdle /\ gIdle /\ bIdle /\ sIdle /\ fIdle /\ pIdle /\ tIdle /\ rIdle

\* runBuild up to the loop: the project is initialized when .otter exists;
\* the cache directory is named and not looked at.
CheckInitialized ==
    /\ aPc = "start"
    /\ IF aCache.otter
       THEN /\ aPc' = "loop"
            /\ aResult' = aResult
       ELSE /\ aPc' = "done"
            /\ aResult' = "notInitialized"
    /\ UNCHANGED <<aFs, aCache, aSources, aIdx, aLog, aCommit>>
    /\ UNCHANGED <<mVars, xVars, cVars, gVars, bVars, sVars, fVars, pVars, tVars, rVars>>

\* One turn of the loop of runBuild: the source is acquired, and the build
\* ends when that fails; the commit of the layer is read and an error of
\* that read is ignored.
AcquireLayer ==
    /\ aPc = "loop"
    /\ aIdx <= Len(aSources)
    /\ \E outcome \in OutcomesOf(aSources[aIdx], aCache) :
        LET r == CloneOrUpdateLayer(aSources[aIdx], aFs, aCache, outcome)
            c == GetRepositoryCommit(StatWithCache(aFs, r.cache, r.path))
        IN  /\ aCache' = r.cache
            /\ aLog' = Append(aLog,
                   [source |-> aSources[aIdx], kind |-> r.kind, path |-> r.path,
                    failed |-> r.failed, existed |-> r.existed,
                    pull |-> IF r.kind = "update" THEN outcome.pull ELSE "none",
                    cacheBefore |-> aCache, cacheAfter |-> r.cache,
                    commit |-> IF r.failed \/ c.failed THEN <<>> ELSE c.value])
            /\ IF r.failed
               THEN /\ aPc' = "done"
                    /\ aResult' = "layerFailed"
                    /\ aIdx' = aIdx
               ELSE /\ aPc' = aPc
                    /\ aResult' = aResult
                    /\ aIdx' = aIdx + 1
    /\ UNCHANGED <<aFs, aSources, aCommit>>
    /\ UNCHANGED <<mVars, xVars, cVars, gVars, bVars, sVars, fVars, pVars, tVars, rVars>>

\* The loop is over.
FinishBuild ==
    /\ aPc = "loop"
    /\ aIdx > Len(aSources)
    /\ aPc' = "done"
    /\ aResult' = "built"
    /\ UNCHANGED <<aFs, aCache, aSources, aIdx, aLog, aCommit>>
    /\ UNCHANGED <<mVars, xVars, cVars, gVars, bVars, sVars, fVars, pVars, tVars, rVars>>

\* GetRepositoryCommit called on a path, as the tests of the package do.
CallGetRepositoryCommit ==
    /\ aPc = "start"
    /\ aSources = <<>>
    /\ aCommit = NoCommit
    /\ \E path \in CommitPaths :
        LET c == GetRepositoryCommit(StatWithCache(aFs, aCache, path))
        IN  aCommit' = [path |-> path, value |-> c.value, failed |-> c.failed]
    /\ UNCHANGED <<aFs, aCache, aSources, aIdx, aPc, aLog, aResult>>
    /\ UNCHANGED <<mVars, xVars, cVars, gVars, bVars, sVars, fVars, pVars, tVars, rVars>>

NextAcquire ==
    \/ CheckInitialized
    \/ AcquireLayer
    \/ FinishBuild
    \/ CallGetRepositoryCommit

SpecAcquire == InitAcquire /\ [][NextAcquire]_vars

-----------------------------------------------------------------------------
(* SpecParseHooks: runBuild on configurations that repeat hook statements
   and define a variable with an empty value *)

InitParseHooks ==
    /\ pLines \in HookOtterfiles
    /\ pHost \in ParseHosts
    /\ pPc = "start"
    /\ pParse = NoParse
    /\ pApplicable = <<>>
    /\ pIdx = 0
    /\ pTouched = <<>>
    /\ pResult = "running"
    /\ mIdle /\ xIdle /\ cIdle /\ gIdle /\ bIdle /\ sIdle /\ fIdle /\ aIdle /\ tIdle /\ rIdle

SpecParseHooks == InitParseHooks /\ [][NextParse]_vars

-----------------------------------------------------------------------------
(* SpecTemplate: copyFile on one file of a layer with template variables *)

InitTemplate ==
    /\ tPieces \in PieceLists
    /\ tTemplateVars \in TemplateVars
    /\ tTarget = {}
    /\ tResult = "none"
    /\ mIdle /\ xIdle /\ cIdle /\ gIdle /\ bIdle /\ sIdle /\ fIdle /\ pIdle /\ aIdle /\ rIdle

\* copyFile of README.md: the content is read, rendered or kept, and
\* written; an error of the rendering is returned before anything is
\* written.
CallCopyFile ==
    /\ tResult = "none"
    /\ \E missing \in MissingKeyTexts :
        LET final == finalContent(Flatten(tPieces), tTemplateVars, missing)
            copied == copyFile(tTarget, S_README, final.text, FALSE)
        IN  IF final.failed
            THEN /\ tResult' = "failed"
                 /\ tTarget' = tTarget
            ELSE /\ tResult' = IF copied.failed THEN "failed" ELSE "written"
                 /\ tTarget' = copied.target
    /\ UNCHANGED <<tPieces, tTemplateVars>>
    /\ UNCHANGED <<mVars, xVars, cVars, gVars, bVars, sVars, fVars, pVars, aVars, rVars>>

NextTemplate == CallCopyFile

SpecTemplate == InitTemplate /\ [][NextTemplate]_vars

-----------------------------------------------------------------------------
(* SpecRace: handleRemoteRepository of several runs on one cache directory,
   each system call a step of its own; a run has computed the name of its
   cache path when it begins *)

InitRace ==
    /\ rSources \in [Runs -> RemoteSources]
    /\ rNames = [r \in Runs |-> GetRepoDirectoryName(rSources[r])]
    /\ rCache \in SharedCaches
    /\ rPc = [r \in Runs |-> "stat"]
    /\ rSaw = [r \in Runs |-> "nothing"]
    /\ rResult = [r \in Runs |-> "running"]
    /\ mIdle /\ xIdle /\ cIdle /\ gIdle /\ bIdle /\ sIdle /\ fIdle /\ pIdle /\ aIdle
    /\ tIdle

\* The check of handleRemoteRepository that waits while another run is
\* between its check and the end of its clone of the same cache path.
StatGitLocked(r) ==
    /\ rPc[r] = "stat"
    /\ \A q \in Runs \ {r} :
           \/ rPc[q] \notin {"clone", "cloning"}
           \/ rNames[q] # rNames[r]
    /\ LET exists == rCache.dir /\ rNames[r] \in rCache.repos
       IN  /\ rSaw' = [rSaw EXCEPT ![r] = IF exists THEN "repository" ELSE "absent"]
           /\ rPc' = [rPc EXCEPT ![r] = IF exists THEN "update" ELSE "clone"]
    /\ UNCHANGED <<rSources, rNames, rCache, rResult>>

\* The check of handleRemoteRepository: os.Stat of .git below the cache
\* path of the source.
StatGit(r) ==
    /\ rPc[r] = "stat"
    /\ LET exists == rCache.dir /\ rNames[r] \in rCache.repos
       IN  /\ rSaw' = [rSaw EXCEPT ![r] = IF exists THEN "repository" ELSE "absent"]
           /\ rPc' = [rPc EXCEPT ![r] = IF exists THEN "update" ELSE "clone"]
    /\ UNCHANGED <<rSources, rNames, rCache, rResult>>

RaceStat(r) ==
    /\ StatGit(r)
    /\ UNCHANGED <<mVars, xVars, cVars, gVars, bVars, sVars, fVars, pVars, aVars, tVars>>

\* cloneRepository begins: the cache directory is created and the clone
\* into the cache path starts, whatever the cache path holds by now.
StartClone(r) ==
    /\ rPc[r] = "clone"
    /\ rCache' = [rCache EXCEPT !.dir = TRUE]
    /\ rPc' = [rPc EXCEPT ![r] = "cloning"]
    /\ UNCHANGED <<rSources, rNames, rSaw, rResult>>

RaceClone(r) ==
    /\ StartClone(r)
    /\ UNCHANGED <<mVars, xVars, cVars, gVars, bVars, sVars, fVars, pVars, aVars, tVars>>

\* The clone ends: it succeeded, or it failed and has or has not left a
\* .git behind.
RaceCloneEnd(r) ==
    /\ rPc[r] = "cloning"
    /\ \E outcome \in {o \in AcquireOutcomes :
                          o.pull = "ok" /\ (o.leftover => o.clone = "failed")} :
         /\ rCache' = [rCache EXCEPT !.repos =
                          IF outcome.clone = "ok" \/ outcome.leftover
                          THEN @ \cup {rNames[r]} ELSE @]
         /\ rResult' = [rResult EXCEPT ![r] =
                          IF outcome.clone = "ok" THEN "cloned" ELSE "failed"]
    /\ rPc' = [rPc EXCEPT ![r] = "done"]
    /\ UNCHANGED <<rSources, rNames, rSaw>>
    /\ UNCHANGED <<mVars, xVars, cVars, gVars, bVars, sVars, fVars, pVars, aVars, tVars>>

\* updateRepository: the repository is opened and pulled.
RaceUpdate(r) ==
    /\ rPc[r] = "update"
    /\ \E pull \in {"ok", "upToDate", "failed"} :
         rResult' = [rResult EXCEPT ![r] =
                        IF pull = "failed" THEN "failed" ELSE "updated"]
    /\ rPc' = [rPc EXCEPT ![r] = "done"]
    /\ UNCHANGED <<rSources, rNames, rCache, rSaw>>
    /\ UNCHANGED <<mVars, xVars, cVars, gVars, bVars, sVars, fVars, pVars, aVars, tVars>>

NextRace ==
    \E r \in Runs :
        \/ RaceStat(r)
        \/ RaceClone(r)
        \/ RaceCloneEnd(r)
        \/ RaceUpdate(r)

SpecRace == InitRace /\ [][NextRace]_vars

-----------------------------------------------------------------------------
(* C1, C2, C3, C4 *)

\* the places in the log of the steps of the layer declared at place l
C1_stepsOf(l) == {i \in 1..Len(bLog) : bLog[i].layer = l}

\* A hook list fails when it fails whatever the environment decides.
C1_hookFails(commands) ==
    \A exits \in Outcomes(commands) : ExecuteCommands(commands, "", exits).err.failed

\* C1: once a step of an applicable layer fails, no later step of that
\* layer and no step of a later layer is executed; when the BEFORE list of
\* a layer the run has reached fails at its second command, its third
\* command never runs, the layer's files are never merged and the build
\* reports failure.
C1_FailedStepEndsRun ==
    bPc = "done" =>
        /\ \A i \in 1..Len(bLog) :
             ~bLog[i].ok => i = Len(bLog) /\ bResult = "error"
        /\ \A k \in 1..Len(bApplicable) :
             LET l == bApplicable[k]
             IN  (C1_hookFails(bConfig.layers[l].before) /\ C1_stepsOf(l) # {}) =>
                     /\ \A i \in C1_stepsOf(l) :
                          /\ bLog[i].step # "merge"
                          /\ bLog[i].cmd # bConfig.layers[l].before[3]
                     /\ bResult = "error"

\* C2: whenever a step of the build fails, the onError commands are run and
\* the build returns the original failure, whatever the onError commands do.
C2_OnErrorRunsAndFailureStays ==
    bPc = "done" =>
        \A i \in 1..Len(bLog) :
            (~bLog[i].ok /\ bLog[i].step # "onError") =>
                /\ bResult = "error"
                /\ bConfig.onError # <<>> =>
                     \E j \in (i + 1)..Len(bLog) :
                         /\ bLog[j].step = "onError"
                         /\ bLog[j].cmd = bConfig.onError[1]

\* C3: the onBeforeBuild commands run once, before the first step of any
\* layer; the applicable layers follow in declaration order; each layer runs
\* its before hooks, its acquisition, its merge and its after hooks in this
\* order, and no step of a layer starts before the preceding layer is done.
C3_StepOrder ==
    /\ (bConfig.onBeforeBuild # <<>> /\ \E i \in 1..Len(bLog) : bLog[i].layer # 0) =>
         /\ bLog[1].step = "onBeforeBuild"
         /\ Cardinality({i \in 1..Len(bLog) :
                /\ bLog[i].step = "onBeforeBuild"
                /\ bLog[i].cmd = bConfig.onBeforeBuild[1]}) = 1
    /\ \A i, j \in 1..Len(bLog) :
         (i < j /\ bLog[i].layer # 0 /\ bLog[j].layer # 0) =>
             bLog[i].layer <= bLog[j].layer
    /\ \A m \in 1..Len(bLog) :
         bLog[m].step = "merge" =>
             LET l == bLog[m].layer
             IN  /\ \E a \in 1..(m - 1) :
                      /\ bLog[a].step = "acquire" /\ bLog[a].layer = l
                      /\ bConfig.layers[l].before # <<>> =>
                           \E b \in 1..(a - 1) :
                               bLog[b].step = "before" /\ bLog[b].layer = l
                 /\ \A x \in 1..Len(bLog) :
                      (bLog[x].step = "after" /\ bLog[x].layer = l) => m < x
                 /\ (/\ bConfig.layers[l].after # <<>>
                     /\ bLog[m].ok
                     /\ \/ bPc = "done"
                        \/ \E y \in (m + 1)..Len(bLog) : bLog[y].layer > l) =>
                      \E x \in (m + 1)..Len(bLog) :
                          bLog[x].step = "after" /\ bLog[x].layer = l

\* C4: the onAfterBuild commands run exactly once, after the after hooks of
\* the last applicable layer, in a run where every layer step succeeded,
\* and not at all in a run where a layer step failed.
C4_OnAfterBuildOnce ==
    bPc = "done" =>
        LET runs == {i \in 1..Len(bLog) : bLog[i].step = "onAfterBuild"}
            layerSteps == {i \in 1..Len(bLog) : bLog[i].layer # 0}
        IN  /\ (\E i \in layerSteps : ~bLog[i].ok) => runs = {}
            /\ (/\ bResult = "ok"
                /\ layerSteps # {}
                /\ \A i \in layerSteps : bLog[i].ok) =>
                     /\ Cardinality(runs) = Len(bConfig.onAfterBuild)
                     /\ \A i \in runs : \A j \in layerSteps : j < i

-----------------------------------------------------------------------------
(* C9 *)

\* the layers that have written a path, by the log of the run
C9_writers(path) ==
    {gWrites[i].layer : i \in {j \in 1..Len(gWrites) : gWrites[j].path = path}}

\* the files of a layer that neither the project patterns, the layer's own
\* patterns nor the critical patterns keep out of the merge
C9_filesToCopy(layer) ==
    LET lists == (gProject \o ReadPatterns(layer.ignoreFile.lines))
                     \o criticalIgnorePatterns
        entries == LayerEntries(layer)
    IN  {entries[i].path : i \in {j \in 1..Len(entries) :
            /\ ~entries[j].dir
            /\ \A a \in Ancestors(entries[j].path) \cup {entries[j].path} :
                 \A k \in 1..Len(lists) : ~matchPattern(lists[k], a)}}

\* C9: when several applied layers write the same relative path into the
\* same target, the file at that path has the content of the last of them
\* in declaration order; a destination file that exists is overwritten,
\* which is no error and does not stop the merge.
C9_LastLayerWins ==
    /\ \A t \in gTarget :
         ~t.dir =>
             /\ C9_writers(t.path) # {}
             /\ \A k \in C9_writers(t.path) : k <= t.content
             /\ t.content \in C9_writers(t.path)
    /\ \A k \in 1..gIdx :
         (k < gIdx \/ ~gErr) =>
             \A path \in C9_filesToCopy(gLayers[k]) :
                 /\ k \in C9_writers(path)
                 /\ \E t \in gTarget : t.path = path /\ ~t.dir /\ t.content >= k
    /\ gErr =>
         \E e \in gTarget :
             \E i \in 1..Len(LayerEntries(gLayers[gIdx])) :
                 LET entry == LayerEntries(gLayers[gIdx])[i]
                 IN  \/ entry.path = e.path /\ entry.dir # e.dir
                     \/ e.path \in Ancestors(entry.path) /\ ~e.dir

\* The first layer has written a read-only README.md, the second layer holds
\* a README.md that no pattern keeps out, and its merge has failed: the
\* file still has the content of the first layer.
C9_Witness ==
    /\ gIdx = 2
    /\ gErr
    /\ S_README \in C9_filesToCopy(gLayers[2])
    /\ C9_writers(S_README) = {1}
    /\ \E t \in gTarget : t.path = S_README /\ t.content = 1 /\ t.ro

-----------------------------------------------------------------------------
(* C5, C8 *)

C5_lastSegment(path) == LET parts == Split(path, "/") IN parts[Len(parts)]

C5_criticalNames == {S_git, S_otter, S_otterignore, S_gitignore}

\* every pattern CopyLayer combines for the layer of SpecCopy, as a set
C5_allPatterns ==
    LET lists == (cPatterns \o ReadPatterns(cLayer.ignoreFile.lines))
                     \o criticalIgnorePatterns
    IN  {lists[i] : i \in 1..Len(lists)}

C5_matched(patterns, path) == \E p \in patterns : matchPattern(p, path)

C5_paths(target) == {e.path : e \in target}

\* No entry named .git, .otter, .otterignore or .gitignore and nothing below
\* the layer's .git or .otter directory is in the target.
C5_nothingCritical ==
    \A e \in cTarget :
        /\ C5_lastSegment(e.path) \notin C5_criticalNames
        /\ ~HasPrefix(e.path, S_gitSlash)
        /\ ~HasPrefix(e.path, S_otterSlash)

\* C5 as stated: after CopyLayer nothing critical has been written into the
\* target, and every other entry that no pattern matches has been copied.
C5_Original ==
    cState = "copied" =>
        /\ C5_nothingCritical
        /\ LET all == C5_allPatterns
               copied == C5_paths(cTarget)
           IN  \A i \in 1..Len(LayerEntries(cLayer)) :
                   LET e == LayerEntries(cLayer)[i]
                   IN  ~C5_matched(all, e.path) => e.path \in copied

\* C5, amended: for every content of the project ignore file and of the
\* layer's ignore file, after CopyLayer nothing named .git, .otter,
\* .otterignore or .gitignore and nothing below the layer's .git or .otter
\* directory has been written into the target; every other entry is copied
\* when no pattern matches it and no pattern matches a directory above it.
C5_CriticalNeverCopied ==
    cState \in {"copied", "failed"} =>
        /\ C5_nothingCritical
        /\ cState = "copied" =>
             LET all == C5_allPatterns
                 copied == C5_paths(cTarget)
             IN  \A i \in 1..Len(LayerEntries(cLayer)) :
                     LET e == LayerEntries(cLayer)[i]
                     IN  (\A a \in Ancestors(e.path) \cup {e.path} :
                              ~C5_matched(all, a))
                             => e.path \in copied

\* The repository layer, with an ignore file of its own that lists none of
\* the critical paths, has been merged: FOO.md is in the target.
C5_Witness ==
    /\ cState = "copied"
    /\ cLayer.before = TreeRepository.before
    /\ cLayer.ignoreFile.exists
    /\ cLayer.ignoreFile.lines = <<S_LICENSE>>
    /\ S_FOO \in C5_paths(cTarget)
    /\ S_gitConfig \notin C5_paths(cTarget)

\* the walk of the layer of SpecCopy with a given combined pattern list
C8_copiedWith(patterns) ==
    C5_paths(Walk(LayerEntries(cLayer), patterns, cLayer.id, 1,
                  [target |-> {}, skipped |-> {}, written |-> <<>>,
                   failed |-> FALSE]).target)

\* C8: an entry is left out of the merge exactly when it, or a directory
\* above it, matches a pattern of the project list, of the layer's list or
\* of the critical list; the entries copied are the same for every order
\* in which the three lists are concatenated; with the project pattern
\* README.md and the layer pattern LICENSE, a layer holding README.md,
\* LICENSE and FOO.md has only FOO.md copied.
C8_IgnoredIffSomePatternMatches ==
    cState = "copied" =>
        LET project == cPatterns
            own == ReadPatterns(cLayer.ignoreFile.lines)
            critical == criticalIgnorePatterns
            entries == LayerEntries(cLayer)
            all == C5_allPatterns
            copied == C5_paths(cTarget)
        IN  /\ \A i \in 1..Len(entries) :
                 (entries[i].path \notin copied)
                     <=> (\E a \in Ancestors(entries[i].path) \cup {entries[i].path} :
                              C5_matched(all, a))
            /\ \A order \in {(project \o own) \o critical, (project \o critical) \o own,
                             (own \o project) \o critical, (own \o critical) \o project,
                             (critical \o project) \o own, (critical \o own) \o project} :
                 C8_copiedWith(order) = copied
            /\ (/\ project = <<S_README>> /\ own = <<S_LICENSE>>
                /\ cLayer.before = TreeRepository.before)
                   => copied = {S_FOO}

\* Scenario E has run: README.md and LICENSE were left out, FOO.md copied.
C8_Witness ==
    /\ cState = "copied"
    /\ cPatterns = <<S_README>>
    /\ cLayer.ignoreFile.lines = <<S_LICENSE>>
    /\ cLayer.before = TreeRepository.before
    /\ C5_paths(cTarget) = {S_FOO}

-----------------------------------------------------------------------------
(* C6, C7 *)

\* the first command of a list that an execution log shows as failed, or 0
C6_firstFailed(ran) ==
    IF \A i \in 1..Len(ran) : ran[i].ok THEN 0
    ELSE CHOOSE i \in 1..Len(ran) : ~ran[i].ok /\ \A j \in 1..(i - 1) : ran[j].ok

\* C6: ExecuteCommands runs the commands in list order; at the first command
\* that fails it stops, runs none of the later commands and returns an error
\* naming that command; with an empty list it runs nothing and succeeds.
C6_StopAtFirstFailure ==
    xCall = "ExecuteCommands" =>
        LET k == C6_firstFailed(xRan)
        IN  /\ Len(xRan) <= Len(xCommands)
            /\ \A i \in 1..Len(xRan) : xRan[i].cmd = xCommands[i]
            /\ k = 0 => Len(xRan) = Len(xCommands) /\ xErr = NoError
            /\ k # 0 => /\ Len(xRan) = k
                        /\ xErr.failed
                        /\ xErr.command = xCommands[k]
            /\ xCommands = <<>> => xRan = <<>> /\ xErr = NoError

\* The list true, false, cmd has stopped at its second command.
C6_Witness ==
    /\ xCall = "ExecuteCommands"
    /\ xCommands = <<"true", "false", "cmd">>
    /\ Len(xRan) = 2
    /\ xErr.failed

\* C7: ExecuteCommandsWithCleanup returns the result of the primary list:
\* the cleanup list is run only when the primary list failed, never when it
\* succeeded, and a failing cleanup command neither turns the result into a
\* success nor replaces the primary error.
C7_CleanupKeepsPrimaryResult ==
    xCall = "ExecuteCommandsWithCleanup" =>
        LET k == C6_firstFailed(xRan)
        IN  /\ k = 0 => xErr = NoError /\ xCleanupRan = <<>>
            /\ k # 0 => xErr = CommandError("test", xCommands[k])
            /\ k # 0 /\ xOnError # <<>> =>
                 /\ xCleanupRan # <<>>
                 /\ xCleanupRan[1].cmd = xOnError[1]
            /\ xCleanupRan # <<>> => k # 0

\* The primary list failed and so did a command of the cleanup list.
C7_Witness ==
    /\ xCall = "ExecuteCommandsWithCleanup"
    /\ xErr.failed
    /\ xCleanupErr.failed
    /\ xCleanupErr.command # xErr.command

-----------------------------------------------------------------------------
(* C10 *)

C10_lastSegment(s) == LET parts == Split(s, "/") IN parts[Len(parts)]

\* C10: matchPattern decides by the first rule that applies: equal strings
\* match; a pattern ending in "/" matches exactly the paths equal to the
\* directory name or beginning with the pattern; a pattern containing "*"
\* matches everything when it is "*", by suffix when it begins with "*.",
\* and nothing otherwise; a pattern without "/" matches a path whose final
\* segment equals it; in every remaining case the pattern matches exactly
\* when it is a prefix of the path.  With "*.log" and "temp/", debug.log and
\* temp/file.txt match a pattern and logs/error.txt matches neither.
C10_MatchRules ==
    mDone =>
        LET p == mPattern
            s == mPath
            r == mResult
            dirRule == p # s /\ p[Len(p)] = "/"
            starRule == p # s /\ ~dirRule /\ (\E i \in 1..Len(p) : p[i] = "*")
            nameRule == /\ p # s /\ ~dirRule /\ ~starRule
                        /\ \A i \in 1..Len(p) : p[i] # "/"
                        /\ C10_lastSegment(s) = p
        IN  /\ p = s => r
            /\ dirRule =>
                 (r <=> (s = SubSeq(p, 1, Len(p) - 1) \/ HasPrefix(s, p)))
            /\ starRule /\ p = <<"*">> => r
            /\ starRule /\ p # <<"*">> /\ Len(p) >= 2 /\ p[1] = "*" /\ p[2] = "." =>
                 (r <=> HasSuffix(s, Tail(p)))
            /\ starRule /\ p # <<"*">> /\ ~(Len(p) >= 2 /\ p[1] = "*" /\ p[2] = ".") =>
                 ~r
            /\ nameRule => r
            /\ p # s /\ ~dirRule /\ ~starRule /\ ~nameRule =>
                 (r <=> HasPrefix(s, p))
            /\ (p = S_starLog /\ s = S_debugLog) => r
            /\ (p = S_tempSlash /\ s = S_tempFile) => r
            /\ (p \in {S_starLog, S_tempSlash} /\ s = S_logsError) => ~r

\* The suffix rule has decided that debug.log matches "*.log".
C10_Witness ==
    mDone /\ mPattern = S_starLog /\ mPath = S_debugLog /\ mResult

-----------------------------------------------------------------------------
(* C11 *)

\* the value the claim gives to the placeholder of a name
C11_resolve(name) ==
    IF name \in DOMAIN sVariables THEN sVariables[name]
    ELSE IF Getenv(sEnv, S_OTTER_ \o ToUpper(name)) # <<>>
    THEN Getenv(sEnv, S_OTTER_ \o ToUpper(name))
    ELSE IF Getenv(sEnv, name) # <<>> THEN Getenv(sEnv, name)
    ELSE (<<"$", "{">> \o name) \o <<"}">>

\* a well-formed placeholder spans the places i to j of a text
C11_placeholder(text, i, j) ==
    /\ i + 3 <= j /\ j <= Len(text)
    /\ text[i] = "$" /\ text[i + 1] = "{" /\ text[j] = "}"
    /\ \A k \in (i + 2)..(j - 1) : text[k] # "}"

C11_wellFormed(text) ==
    \E i, j \in 1..Len(text) : C11_placeholder(text, i, j)

\* C11: each ${NAME} is replaced by the variable NAME of the configuration
\* when it is defined, even when empty and whatever the environment holds;
\* else by a non-empty OTTER_ + uppercase(NAME) of the environment; else by
\* a non-empty NAME of the environment; else the placeholder stays.  A text
\* without a well-formed placeholder, such as one whose closing brace is
\* missing, is returned unchanged.
C11_SubstitutionOrder ==
    sDone =>
        /\ ~C11_wellFormed(sText) => sResult = sText
        /\ \A i, j \in 1..Len(sText) :
             (/\ C11_placeholder(sText, i, j)
              /\ \A a, b \in 1..Len(sText) :
                   C11_placeholder(sText, a, b) => i <= a) =>
                 sResult = (SubSeq(sText, 1, i - 1)
                              \o C11_resolve(SubSeq(sText, i + 2, j - 1)))
                              \o substituteVariables(SubSeq(sText, j + 1, Len(sText)),
                                                     sVariables, sEnv)
        /\ (sText = S_phA /\ S_A \in DOMAIN sVariables) => sResult = sVariables[S_A]
        /\ (sText = S_phAa /\ S_A \in DOMAIN sVariables /\ S_a \notin DOMAIN sVariables) =>
               sResult = sVariables[S_A]
                   \o (IF Getenv(sEnv, S_OTTER_A) # <<>> THEN Getenv(sEnv, S_OTTER_A)
                       ELSE IF Getenv(sEnv, S_a) # <<>> THEN S_q ELSE S_pha)

\* ${A} was replaced by the empty value the configuration defines for A,
\* while the environment holds both OTTER_A and A.
C11_Witness ==
    /\ sDone
    /\ sText = S_phA
    /\ S_A \in DOMAIN sVariables /\ sVariables[S_A] = <<>>
    /\ Getenv(sEnv, S_OTTER_A) = S_o /\ Getenv(sEnv, S_A) = S_p
    /\ sResult = <<>>

-----------------------------------------------------------------------------
(* C15, C16 *)

\* the declared places whose condition is absent or evaluates to true
C15_applicable ==
    {i \in 1..Len(fConditions) :
        \/ fConditions[i] = <<>>
        \/ /\ ~parseCondition(fConditions[i]).failed
           /\ evaluateCondition(parseCondition(fConditions[i]), fHost)}

\* C15: FilterApplicableLayers returns exactly the declared layers whose
\* condition is absent or evaluates to true, in declaration order: none
\* that applies is dropped, none that does not apply is kept, and no two
\* change their relative order.
C15_FilterKeepsOrder ==
    (fDone /\ ~fResult.failed) =>
        /\ {fResult.layers[k] : k \in 1..Len(fResult.layers)} = C15_applicable
        /\ \A j, k \in 1..Len(fResult.layers) :
             j < k => fResult.layers[j] < fResult.layers[k]

\* Of two declared layers the first does not apply and the second does:
\* the result is the second alone.
C15_Witness ==
    /\ fDone /\ ~fResult.failed
    /\ Len(fConditions) = 2
    /\ fConditions[1] = S_condProduction /\ fConditions[2] = <<>>
    /\ fResult.layers = <<2>>

\* the value the claim compares an env condition with
C16_effective ==
    IF Getenv(fHost.env, S_OTTER_ENV) # <<>> THEN Getenv(fHost.env, S_OTTER_ENV)
    ELSE IF Getenv(fHost.env, S_ENV) # <<>> THEN Getenv(fHost.env, S_ENV)
    ELSE IF Getenv(fHost.env, S_NODE_ENV) # <<>> THEN Getenv(fHost.env, S_NODE_ENV)
    ELSE S_development

\* the value of the declared conditions env=V and environment=V
C16_envValue(conditionStr) ==
    IF HasPrefix(conditionStr, S_env \o <<"=">>)
    THEN SubSeq(conditionStr, Len(S_env) + 2, Len(conditionStr))
    ELSE SubSeq(conditionStr, Len(S_environment) + 2, Len(conditionStr))

\* C16: a condition env=V or environment=V holds exactly when V is the
\* first non-empty value among OTTER_ENV, ENV and NODE_ENV, or development
\* when none is set or all are empty; with none set, IF env=development
\* applies and IF env=production does not.
C16_EnvCondition ==
    (fDone /\ ~fResult.failed) =>
        /\ \A i \in 1..Len(fConditions) :
             (\/ HasPrefix(fConditions[i], S_env \o <<"=">>)
              \/ HasPrefix(fConditions[i], S_environment \o <<"=">>)) =>
                 ((\E k \in 1..Len(fResult.layers) : fResult.layers[k] = i)
                     <=> C16_envValue(fConditions[i]) = C16_effective)
        /\ (/\ DOMAIN fHost.env = {}
            /\ fConditions = <<S_condDevelopment, S_condProduction>>) =>
               fResult.layers = <<1>>

\* Scenario B has run: no environment variable is set, the layer with
\* env=development is kept and the layer with env=production is not.
C16_Witness ==
    /\ fDone
    /\ DOMAIN fHost.env = {}
    /\ fConditions = <<S_condDevelopment, S_condProduction>>
    /\ fResult.layers = <<1>>

-----------------------------------------------------------------------------
(* C12, C13, C14 *)

S_outDemo == <<"o", "u", "t", "/", "d", "e", "m", "o">>
S_demoDir == <<"d", "e", "m", "o", "/", "d">>

\* what the statements of the model declare, as written in the file
C12_statement(line) ==
    LET none == [kind |-> "other", name |-> <<>>, value |-> <<>>,
                 repository |-> <<>>, target |-> <<>>, template |-> EmptyMap]
    IN  IF line = S_lineVarDemo
        THEN [none EXCEPT !.kind = "var", !.name = S_PROJECT, !.value = S_demo]
        ELSE IF line = S_lineVarOther
        THEN [none EXCEPT !.kind = "var", !.name = S_PROJECT, !.value = S_other]
        ELSE IF line = S_lineVarDir
        THEN [none EXCEPT !.kind = "var", !.name = S_DIR, !.value = S_dirValue]
        ELSE IF line = S_lineLayer
        THEN [none EXCEPT !.kind = "layer", !.repository = S_src,
                          !.target = S_outPlaceholder]
        ELSE IF line = S_lineLayerTemplate
        THEN [none EXCEPT !.kind = "layer", !.repository = S_lib, !.target = S_dot,
                          !.template = [n \in {S_name} |-> S_phProject]]
        ELSE IF line = S_lineLayerDir
        THEN [none EXCEPT !.kind = "layer", !.repository = S_phDir, !.target = S_dot]
        ELSE none

\* the variables defined by the statements before line k
RECURSIVE C12_varsBefore(_)
C12_varsBefore(k) ==
    IF k <= 1 THEN EmptyMap
    ELSE LET earlier == C12_varsBefore(k - 1)
             st == C12_statement(pLines[k - 1])
         IN  IF st.kind = "var"
             THEN MapSet(earlier, st.name,
                         substituteVariables(st.value, earlier, pHost.env))
             ELSE earlier

\* the lines that declare a layer, in file order
C12_layerLines ==
    {k \in 1..Len(pLines) : C12_statement(pLines[k]).kind = "layer"}

\* C12: statements are applied in file order against the variables defined
\* so far: the value of a VAR statement is substituted against the earlier
\* VAR statements and stored, a repeated name keeping its last value; the
\* source, target and template values of a LAYER statement are substituted
\* against the variables defined before it.  VAR PROJECT=demo followed by
\* LAYER ./src TARGET out/${PROJECT} gives the target out/demo.
C12_StatementsInFileOrder ==
    (pPc # "start" /\ ~pParse.failed) =>
        /\ (\A k \in 1..Len(pLines) : ~HasSuffix(pLines[k], <<"\\">>)) =>
             /\ pParse.config.variables = C12_varsBefore(Len(pLines) + 1)
             /\ Len(pParse.config.layers) = Cardinality(C12_layerLines)
             /\ \A k \in C12_layerLines :
                  LET j == Cardinality({i \in C12_layerLines : i <= k})
                      st == C12_statement(pLines[k])
                      defined == C12_varsBefore(k)
                      layer == pParse.config.layers[j]
                  IN  /\ layer.repository =
                             substituteVariables(st.repository, defined, pHost.env)
                      /\ layer.target =
                             substituteVariables(st.target, defined, pHost.env)
                      /\ DOMAIN layer.template = DOMAIN st.template
                      /\ \A n \in DOMAIN st.template :
                             layer.template[n] =
                                 substituteVariables(st.template[n], defined, pHost.env)
        /\ pLines = <<S_lineVarDemo, S_lineLayer>> =>
               pParse.config.layers[1].target = S_outDemo
        /\ pLines = <<S_lineVarDemo, S_lineLayerOpen, S_lineTarget>> =>
               pParse.config.layers[1].target = S_outDemo
        /\ pLines = <<S_lineVarOther, S_lineVarDemo, S_lineVarDir>> =>
               /\ pParse.config.variables[S_PROJECT] = S_demo
               /\ pParse.config.variables[S_DIR] = S_demoDir

\* Scenario A has been parsed: the target of the layer is out/demo.
C12_Witness ==
    /\ pPc = "parsed"
    /\ pLines = <<S_lineVarDemo, S_lineLayer>>
    /\ ~pParse.failed
    /\ pParse.config.layers[1].target = S_outDemo

\* A continuation is open after the first k lines: the last of them that
\* is not skipped ends with the marker.  An empty line or a comment is
\* skipped unless it continues a line.
RECURSIVE C13_open(_)
C13_open(k) ==
    IF k = 0 THEN FALSE
    ELSE LET line == TrimSpace(pLines[k])
         IN  IF ~C13_open(k - 1) /\ (line = <<>> \/ HasPrefix(line, <<"#">>))
             THEN FALSE
             ELSE HasSuffix(line, <<"\\">>)

\* C13: if the input ends while a line continuation is open, ParseOtterfile
\* fails and returns no build plan, whatever text precedes the marker on
\* the continued lines.
C13_UnterminatedContinuationFails ==
    (pPc # "start" /\ C13_open(Len(pLines))) =>
        pParse.failed /\ pParse.config = EmptyConfig

\* The file ends with a line that holds the marker alone, and the parse has
\* returned a build plan with the layer declared before it.
C13_Witness ==
    /\ pPc = "parsed"
    /\ pLines = <<S_lineLayer, S_lineMarker>>
    /\ ~pParse.failed
    /\ Len(pParse.config.layers) = 1

\* a declared layer whose condition has no "="
C14_malformedCondition ==
    \E i \in 1..Len(pParse.config.layers) :
        /\ pParse.config.layers[i].condition # <<>>
        /\ ~Contains(pParse.config.layers[i].condition, <<"=">>)

\* C14: a parse error on any line (malformed statement, unknown command,
\* bad hook array, unterminated continuation) or a layer condition without
\* "=" ends the build with an error before any layer is acquired or merged.
C14_ConfigErrorBeforeAnyLayer ==
    (/\ pPc \notin {"start", "parsed"}
     /\ \/ pParse.failed
        \/ C13_open(Len(pLines))
        \/ C14_malformedCondition) =>
        /\ pResult = "error"
        /\ pTouched = <<>>

\* A well-formed layer is followed by a line with the marker alone: the
\* build has gone on to process the layer.
C14_Witness ==
    /\ pLines = <<S_lineLayer, S_lineMarker>>
    /\ pTouched = <<1>>

-----------------------------------------------------------------------------
(* C17 *)

\* The sources the specification calls local: those that begin with ./, ../
\* or /, the absolute paths with a drive letter, and the file:// URIs.
C17_local(repoURL) ==
    \/ HasPrefix(repoURL, <<".", "/">>) \/ HasPrefix(repoURL, <<".", ".", "/">>)
    \/ HasPrefix(repoURL, <<"/">>)
    \/ HasPrefix(repoURL, S_fileScheme)
    \/ /\ Len(repoURL) >= 3 /\ repoURL[2] = ":" /\ repoURL[3] \in {"\\", "/"}
       /\ ToUpperChar(repoURL[1]) \in
              {"A", "B", "C", "D", "E", "F", "G", "H", "I", "J", "K", "L", "M",
               "N", "O", "P", "Q", "R", "S", "T", "U", "V", "W", "X", "Y", "Z"}

\* What an acquisition of a local source must have done: the cache is as it
\* was, and the answer is the absolute path of an existing directory or an
\* error.
C17_localDone(e) ==
    /\ e.cacheAfter = e.cacheBefore
    /\ ~e.failed =>
          /\ IsAbs(e.path)
          /\ Stat(aFs, e.path) \in {"dir", "repo", "emptyRepo"}

\* C17: an acquisition takes the local path exactly for the sources that
\* begin with ./, ../ or /, are absolute paths with a drive letter or are
\* file:// URIs, and the remote path for every other source; a local
\* acquisition leaves the cache alone and answers the absolute path of an
\* existing directory or an error.
C17_LocalExactlyByPrefix ==
    \A i \in DOMAIN aLog :
        /\ (aLog[i].kind = "local") <=> C17_local(aLog[i].source)
        /\ aLog[i].kind \in {"local", "update", "clone"}
        /\ aLog[i].kind = "local" => C17_localDone(aLog[i])

\* A source that begins with a digit and ":/" was acquired as a local one.
C17_Witness ==
    \E i \in DOMAIN aLog :
        /\ aLog[i].source = S_localDigit
        /\ aLog[i].kind = "local"
        /\ aLog[i].cacheAfter = aLog[i].cacheBefore

-----------------------------------------------------------------------------
(* C18 *)

C18_remote(e) == e.kind \in {"update", "clone"}

C18_cachePath(repoURL) == (S_cacheDir \o <<"/">>) \o GetRepoDirectoryName(repoURL)

\* C18: two remote acquisitions of one source use one cache path; an
\* acquisition updates exactly when the cache held a repository at that
\* path and clones otherwise; an update whose pull finds nothing new
\* succeeds; and after a successful acquisition of a source every later
\* acquisition of that source is an update.
C18_UpdateAfterAcquisition ==
    /\ \A i \in DOMAIN aLog : C18_remote(aLog[i]) =>
          /\ (aLog[i].kind = "update") <=>
                 /\ aLog[i].cacheBefore.dir
                 /\ TrimPrefix(aLog[i].path, S_cacheDir \o <<"/">>)
                        \in aLog[i].cacheBefore.repos
          /\ (aLog[i].kind = "update" /\ aLog[i].pull \in {"ok", "upToDate"})
                 => ~aLog[i].failed
    /\ \A i \in DOMAIN aLog : \A j \in DOMAIN aLog :
          (i < j /\ C18_remote(aLog[i]) /\ aLog[j].source = aLog[i].source) =>
              /\ aLog[j].path = aLog[i].path
              /\ ~aLog[i].failed => aLog[j].kind = "update"

\* A source was cloned and then acquired again: the second acquisition is
\* an update whose pull found nothing new, and it succeeded.
C18_Witness ==
    /\ Len(aLog) = 2
    /\ aLog[1].source = S_remoteHttps /\ aLog[2].source = S_remoteHttps
    /\ aLog[1].kind = "clone" /\ ~aLog[1].failed
    /\ aLog[2].kind = "update" /\ aLog[2].pull = "upToDate" /\ ~aLog[2].failed

-----------------------------------------------------------------------------
(* C19 *)

C19_kind == StatWithCache(aFs, aCache, aCommit.path)

\* C19: GetRepositoryCommit fails for a path that does not exist, answers
\* local-dir without an error for a directory that is no repository, and
\* the hash of the head commit for a repository.
C19_CommitOfPath ==
    aCommit # NoCommit =>
        /\ C19_kind = "missing" => aCommit.failed
        /\ C19_kind = "dir" => (~aCommit.failed /\ aCommit.value = S_localDir)
        /\ C19_kind = "repo" => (~aCommit.failed /\ aCommit.value = S_commit)

\* GetRepositoryCommit answered local-dir without an error for a path that
\* does not exist.
C19_Witness ==
    /\ aCommit # NoCommit
    /\ C19_kind = "missing"
    /\ ~aCommit.failed /\ aCommit.value = S_localDir

-----------------------------------------------------------------------------
(* C20 *)

\* The cache as the build found it.
C20_cacheAtStart == IF aLog = <<>> THEN aCache ELSE aLog[1].cacheBefore

\* C20: a build that starts without cache directory ends with an error, has
\* processed no layer, and has not created the cache directory.
C20_MissingCacheFailsBuild ==
    (aPc \in {"loop", "done"} /\ ~C20_cacheAtStart.dir) =>
        /\ aLog = <<>>
        /\ ~aCache.dir
        /\ aPc = "done" => aResult # "built"

\* A build that started in an initialized project without cache directory
\* cloned a layer, which created the cache directory, and ended well.
C20_Witness ==
    /\ C20_cacheAtStart.otter /\ ~C20_cacheAtStart.dir
    /\ aLog # <<>> /\ aLog[1].kind = "clone" /\ ~aLog[1].failed
    /\ aCache.dir
    /\ aPc = "done" /\ aResult = "built"

-----------------------------------------------------------------------------
(* C21 *)

\* The layers of this run that were merged.
C21_processed == {i \in DOMAIN bLog : bLog[i].step = "merge" /\ bLog[i].ok}

\* C21: a build that ends well after its layer loop reports as applied the
\* number of layers that passed the filter and were processed.
C21_CountOfAppliedLayers ==
    (bPc = "done" /\ bResult = "ok" /\ bLog # <<>>) =>
        /\ bCount = Len(bApplicable)
        /\ bCount = Cardinality(C21_processed)

\* A build of two declared layers, one of them kept out by its condition,
\* ended well and reported two layers.
C21_Witness ==
    /\ bPc = "done" /\ bResult = "ok"
    /\ Len(bConfig.layers) = 2 /\ Len(bApplicable) = 1
    /\ Cardinality(C21_processed) = 1
    /\ bCount = 2

-----------------------------------------------------------------------------
(* C22 *)

\* C22: every layer of the build plan of a successful parse has a source
\* that is not empty.
C22_SourceNotEmpty ==
    (pPc # "start" /\ ~pParse.failed) =>
        \A i \in 1..Len(pParse.config.layers) :
            pParse.config.layers[i].repository # <<>>

\* VAR DIR= followed by LAYER ${DIR} parsed without error, and the source of
\* the layer is empty.
C22_Witness ==
    /\ pPc # "start" /\ ~pParse.failed
    /\ Len(pLines) = 2 /\ pLines[1] = S_lineVarEmpty /\ pLines[2] = S_lineLayerDir
    /\ Len(pParse.config.layers) = 1
    /\ pParse.config.layers[1].repository = <<>>

-----------------------------------------------------------------------------
(* C29 *)

\* The hook a line states and the commands it gives.
C29_hookOf(line) ==
    IF line \in {S_lineHook, S_lineHookAgain} THEN "onError"
    ELSE IF line \in {S_lineHookBefore, S_lineHookBeforeAgain} THEN "onBeforeBuild"
    ELSE IF line = S_lineHookAfter THEN "onAfterBuild"
    ELSE "none"

C29_commandsOf(line) ==
    IF line = S_lineHook THEN <<<<"t", "r", "u", "e">>, <<"f", "a", "l", "s", "e">>>>
    ELSE IF line = S_lineHookAgain THEN <<<<"c", "m", "d">>>>
    ELSE IF line = S_lineHookBefore THEN <<<<"t", "r", "u", "e">>>>
    ELSE IF line = S_lineHookBeforeAgain THEN <<<<"c", "m", "d">>, <<"t", "r", "u", "e">>>>
    ELSE IF line = S_lineHookAfter THEN <<<<"c", "m", "d">>>>
    ELSE <<>>

\* The commands of the last statement of a hook in the file, or none.
C29_lastOf(hook) ==
    LET stated == {k \in 1..Len(pLines) : C29_hookOf(pLines[k]) = hook}
    IN  IF stated = {} THEN <<>>
        ELSE C29_commandsOf(pLines[CHOOSE k \in stated : \A j \in stated : j <= k])

\* C29: each hook of the build plan holds the commands of the last
\* statement of that hook in the configuration and nothing of an earlier
\* statement or of a statement of another hook.
C29_HookStatementReplaces ==
    (pPc # "start" /\ ~pParse.failed) =>
        /\ pParse.config.onError = C29_lastOf("onError")
        /\ pParse.config.onBeforeBuild = C29_lastOf("onBeforeBuild")
        /\ pParse.config.onAfterBuild = C29_lastOf("onAfterBuild")

\* ON_ERROR was stated twice with ON_BEFORE_BUILD in between: the plan holds
\* the commands of the second ON_ERROR and those of ON_BEFORE_BUILD.
C29_Witness ==
    /\ pPc # "start" /\ ~pParse.failed
    /\ pLines = <<S_lineHook, S_lineHookBefore, S_lineHookAgain>>
    /\ pParse.config.onError = <<<<"c", "m", "d">>>>
    /\ pParse.config.onBeforeBuild = <<<<"t", "r", "u", "e">>>>
    /\ pParse.config.onAfterBuild = <<>>

-----------------------------------------------------------------------------
(* C30 *)

\* VAR DIR=${PROJECT}/d is line k, no statement before it defines PROJECT,
\* the host sets no variable for PROJECT, no line is continued, and DIR
\* is not defined again.
C30_undefinedAt(k) ==
    /\ pLines[k] = S_lineVarDir
    /\ \A j \in 1..(k - 1) : pLines[j] \notin {S_lineVarDemo, S_lineVarOther}
    /\ \A j \in (k + 1)..Len(pLines) : pLines[j] # S_lineVarDir
    /\ \A j \in 1..Len(pLines) : ~HasSuffix(pLines[j], <<"\\">>)
    /\ S_OTTER_PROJECT \notin DOMAIN pHost.env

\* the layers declared by LAYER ${DIR} after line k, by their place in the
\* build plan
C30_layersAfter(k) ==
    {Cardinality({i \in 1..j : C12_statement(pLines[i]).kind = "layer"}) :
        j \in {j \in (k + 1)..Len(pLines) : pLines[j] = S_lineLayerDir}}

\* C30: a placeholder of a VAR value that names a variable defined only
\* later is stored verbatim, and stays verbatim when the value is
\* substituted into a later LAYER statement, whether or not the variable is
\* defined by then.
C30_SinglePass ==
    (pPc # "start" /\ ~pParse.failed) =>
        \A k \in 1..Len(pLines) : C30_undefinedAt(k) =>
            /\ pParse.config.variables[S_DIR] = S_dirValue
            /\ \A n \in C30_layersAfter(k) :
                   pParse.config.layers[n].repository = S_dirValue

\* VAR DIR=${PROJECT}/d, VAR PROJECT=demo, LAYER ${DIR}: the source of the
\* layer is ${PROJECT}/d although PROJECT is defined.
C30_Witness ==
    /\ pPc # "start" /\ ~pParse.failed
    /\ pLines = <<S_lineVarDir, S_lineVarDemo, S_lineLayerDir>>
    /\ pParse.config.variables[S_PROJECT] = S_demo
    /\ pParse.config.layers[1].repository = S_dirValue

-----------------------------------------------------------------------------
(* C23 *)

\* the combined list of the CopyLayer call of SpecCopy
C23_patterns ==
    (cPatterns \o loadLayerIgnorePatterns(cLayer)) \o criticalIgnorePatterns

\* C23: after CopyLayer the target holds neither a directory of the layer
\* that matches a pattern nor any entry below such a directory.
C23_IgnoredDirectoryNotEntered ==
    cState \in {"copied", "failed"} =>
        \A i \in DOMAIN LayerEntries(cLayer) : \A j \in DOMAIN LayerEntries(cLayer) :
            LET d == LayerEntries(cLayer)[i]
                e == LayerEntries(cLayer)[j]
            IN  (/\ d.dir
                 /\ isIgnoredWithPatterns(d.path, C23_patterns)
                 /\ (e = d \/ HasPrefix(e.path, d.path \o <<"/">>)))
                    => ~Exists(cTarget, e.path)

\* The layer with pkg/.otter and pkg/temp was copied with the project
\* pattern temp: pkg is in the target, and pkg/.otter/state and
\* pkg/temp/x.txt, which match no pattern themselves, are not.
C23_Witness ==
    /\ cState = "copied"
    /\ \E i \in DOMAIN LayerEntries(cLayer) : LayerEntries(cLayer)[i] = Dir(S_pkgOtter)
    /\ cPatterns = <<S_temp>>
    /\ ~isIgnoredWithPatterns(S_pkgOtterState, C23_patterns)
    /\ ~isIgnoredWithPatterns(S_pkgTempX, C23_patterns)
    /\ IsDir(cTarget, S_pkg)
    /\ ~Exists(cTarget, S_pkgOtter) /\ ~Exists(cTarget, S_pkgOtterState)
    /\ ~Exists(cTarget, S_pkgTemp) /\ ~Exists(cTarget, S_pkgTempX)

-----------------------------------------------------------------------------
(* C27 *)

\* an entry named .git, .otter, .otterignore or .gitignore, or an entry
\* below a directory of such a name
C27_critical(path) ==
    \E k \in DOMAIN Split(path, "/") :
        Split(path, "/")[k] \in {S_git, S_otter, S_otterignore, S_gitignore}

\* a pattern of the project or of the layer matches the entry or a
\* directory above it
C27_patternMatches(path) ==
    \E q \in Ancestors(path) \cup {path} :
        isIgnoredWithPatterns(q, cPatterns \o loadLayerIgnorePatterns(cLayer))

\* C27: an entry of the layer that is not named like the tool state and is
\* not below a directory so named, and that no pattern of the project or of
\* the layer keeps out, is in the target after CopyLayer.
C27_OnlyCriticalNamesKeptOut ==
    cState = "copied" =>
        \A i \in DOMAIN LayerEntries(cLayer) :
            LET e == LayerEntries(cLayer)[i]
            IN  (~C27_critical(e.path) /\ ~C27_patternMatches(e.path))
                    => Exists(cTarget, e.path)

\* The layer with .gitattributes, .github/workflows/ci.yml and .otterrc was
\* copied without any pattern of the project or of the layer: README.md is
\* in the target and the three are not.
C27_Witness ==
    /\ cState = "copied"
    /\ cPatterns = <<>> /\ ~cLayer.ignoreFile.exists
    /\ cLayer.before = TreeDotfiles.before
    /\ IsFile(cTarget, S_README)
    /\ ~Exists(cTarget, S_gitattributes)
    /\ ~Exists(cTarget, S_github) /\ ~Exists(cTarget, S_githubCi)
    /\ ~Exists(cTarget, S_otterrc)

-----------------------------------------------------------------------------
(* C26 *)

\* the entries of a layer that the patterns let through: no pattern of the
\* list matches the entry or a directory above it
C26_letThrough(layer, project) ==
    LET patterns == (project \o loadLayerIgnorePatterns(layer)) \o criticalIgnorePatterns
    IN  {LayerEntries(layer)[i].path : i \in
            {i \in DOMAIN LayerEntries(layer) :
                \A q \in Ancestors(LayerEntries(layer)[i].path)
                             \cup {LayerEntries(layer)[i].path} :
                    ~isIgnoredWithPatterns(q, patterns)}}

\* C26: a CopyLayer call leaves the project pattern list as it was, and the
\* entries it writes are entries that the project patterns, the patterns of
\* that layer and the critical patterns let through: all of them when the
\* call succeeds.
C26_LayerPatternsStayLocal ==
    [][gIdx' = gIdx + 1 =>
          LET layer == gLayers[gIdx']
              wrote == {gWrites'[i].path : i \in (Len(gWrites) + 1)..Len(gWrites')}
          IN  /\ gProject' = gProject
              /\ wrote \subseteq C26_letThrough(layer, gProject)
              /\ ~gErr' => wrote = C26_letThrough(layer, gProject)]_vars

\* Two layers with a LICENSE were merged, the first with LICENSE in its own
\* ignore file: the second layer's LICENSE was written, the first's not.
C26_Witness ==
    /\ gIdx = 2 /\ ~gErr
    /\ gLayers[1].ignoreFile = [exists |-> TRUE, lines |-> <<S_LICENSE>>]
    /\ ~gLayers[2].ignoreFile.exists
    /\ \E i \in DOMAIN gWrites : gWrites[i] = [layer |-> 2, path |-> S_LICENSE]
    /\ ~\E i \in DOMAIN gWrites : gWrites[i] = [layer |-> 1, path |-> S_LICENSE]
    /\ \E i \in DOMAIN LayerEntries(gLayers[1]) :
           LayerEntries(gLayers[1])[i].path = S_LICENSE

-----------------------------------------------------------------------------
(* C28 *)

\* C28: when the primary list failed, the cleanup commands that ran are the
\* first commands of the cleanup list in its order, every one but the last
\* succeeded, and the list was cut short only after a cleanup command that
\* failed.
C28_CleanupStopsAtFirstFailure ==
    (xCall = "ExecuteCommandsWithCleanup" /\ xErr.failed /\ Len(xOnError) > 0) =>
        /\ Len(xCleanupRan) \in 1..Len(xOnError)
        /\ \A i \in 1..Len(xCleanupRan) : xCleanupRan[i].cmd = xOnError[i]
        /\ \A i \in 1..(Len(xCleanupRan) - 1) : xCleanupRan[i].ok
        /\ Len(xCleanupRan) < Len(xOnError) => ~xCleanupRan[Len(xCleanupRan)].ok
        /\ xCleanupErr.failed <=> ~xCleanupRan[Len(xCleanupRan)].ok

\* The primary list failed and the first of two cleanup commands failed:
\* the second was not attempted.
C28_Witness ==
    /\ xCall = "ExecuteCommandsWithCleanup" /\ xErr.failed
    /\ Len(xOnError) = 2
    /\ Len(xCleanupRan) = 1 /\ ~xCleanupRan[1].ok
    /\ xCleanupErr.failed

-----------------------------------------------------------------------------
(* C24 *)

\* the content written for README.md
C24_written == (CHOOSE t \in tTarget : t.path = S_README).content

\* a piece as the specification renders it: a reference to a supplied
\* variable becomes its value, every other piece stays as it is
C24_piece(piece) ==
    IF piece = S_refA /\ S_nameA \in DOMAIN tTemplateVars THEN tTemplateVars[S_nameA]
    ELSE IF piece = S_refB /\ S_nameB \in DOMAIN tTemplateVars THEN tTemplateVars[S_nameB]
    ELSE piece

RECURSIVE C24_rendered(_)
C24_rendered(pieces) ==
    IF pieces = <<>> THEN <<>> ELSE C24_piece(Head(pieces)) \o C24_rendered(Tail(pieces))

\* C24: a file is written as it is unless the layer has a template variable
\* and the content holds both delimiters; a file that is rendered and whose
\* actions are all references to variables is written without an error,
\* every reference to a supplied variable replaced by the value and every
\* other reference left as it is.
C24_RenderedOnlyWithVariables ==
    tResult # "none" =>
        /\ (tTemplateVars = EmptyMap \/ ~containsTemplateSyntax(Flatten(tPieces))) =>
               /\ tResult = "written"
               /\ C24_written = Flatten(tPieces)
        /\ (/\ tTemplateVars # EmptyMap
            /\ containsTemplateSyntax(Flatten(tPieces))
            /\ \A k \in DOMAIN tPieces : tPieces[k] # S_open) =>
               /\ tResult = "written"
               /\ C24_written = C24_rendered(tPieces)

\* A file with a reference to A and a reference to B was rendered with A
\* alone supplied: the merge did not fail, the value of A is in the output
\* and the reference to B is not.
C24_Witness ==
    /\ tResult = "written"
    /\ tPieces = <<S_refA, S_refB>>
    /\ DOMAIN tTemplateVars = {S_nameA}
    /\ HasPrefix(C24_written, S_valueA)
    /\ ~Contains(C24_written, S_refB)

-----------------------------------------------------------------------------
(* C25 *)

\* C25: nothing makes a run wait for another: a run at its check can take
\* it whatever the other runs do, it sees no repository exactly when a run
\* that saw none goes on to clone, and a run that saw none can start its
\* clone whatever the cache path holds by then.
C25_CheckAndCloneNotAtomic ==
    \A r \in DOMAIN rPc :
        /\ rPc[r] = "stat" => ENABLED StatGit(r)
        /\ rPc[r] \in {"clone", "cloning"} => rSaw[r] = "absent"
        /\ rPc[r] = "clone" => ENABLED StartClone(r)

\* Two runs with the same source both saw no repository at the cache path
\* and both have started their clone into it.
C25_Witness ==
    /\ DOMAIN rPc # {}
    /\ rSources[1] = rSources[2]
    /\ rSaw[1] = "absent" /\ rSaw[2] = "absent"
    /\ rPc[1] = "cloning" /\ rPc[2] = "cloning"

====
